---------------------------- MODULE Spec2Model ----------------------------
(***************************************************************************)
(* A model of the ynab-mcp server: the Content-Length framed transport,    *)
(* the JSON-RPC envelope, the tool registry, the MCP dispatcher, the       *)
(* session loop of run_mcp_server, the transaction queries and analyses,   *)
(* the response cache and the YnabClient that shares it.                   *)
(*                                                                         *)
(* Strings are sequences of Unicode code points; byte streams are          *)
(* sequences of numbers in 0..255.  A Rust `String` is UTF-8 inside, so    *)
(* `s.len()` is Len(as_bytes(s)), not Len(s).                              *)
(***************************************************************************)
EXTENDS Integers, Sequences, FiniteSets, TLC

VARIABLES
    t_pc,            \* transport: "start", "written", "read"; "raw", "raw_read"
    t_message,       \* transport: the message handed to write_message
    t_stream,        \* transport: the bytes write_message emitted, or given
    t_result,        \* transport: what read_message returned
    mcp_server,      \* the McpServer run_mcp_server built (its Handler)
    input,           \* the bytes the client has put on the server's reader
    input_closed,    \* the client has closed the reader's stream
    reader_fails,    \* the reader is broken (TRUE: reads fail)
    reader_pos,      \* how many bytes of input the reader has handed out
    output,          \* the bytes the server has written to its writer
    writer_accepts,  \* the writer takes bytes (FALSE: writes fail)
    pc,              \* where the loop stands: "read", "handle", "write", "done",
                     \* "panicked"
    msg,             \* the message read_message returned last
    resp,            \* the response waiting to be written
    calls,           \* the execute_tool calls made for msg
    returned,        \* what run_mcp_server returned, once pc = "done"
    sent,            \* history: the bodies the client has framed and sent
    reads,           \* history: the messages read, with the reader before and after
    answered,        \* history: the messages answered, each with its response
    h_pc,            \* tool registry: "start", "listed", "executed", "called",
                     \* "again", "repeated"
    h_handler,       \* tool registry: the Handler
    h_tool_name,     \* tool registry: the name handed to execute_tool
    h_params,        \* tool registry: the arguments handed to execute_tool
    h_tools,         \* tool registry: what list_tools returned
    h_outcome,       \* tool registry: what execute_tool returned
    h_first,         \* tool registry: history, what the same call returned before
    r_pc,            \* dispatcher: "idle", "message", "request"
    r_server,        \* dispatcher: the McpServer
    r_message,       \* dispatcher: the message text taken up last
    r_request,       \* dispatcher: what from_json returned for r_message
    r_dispatch,      \* dispatcher: what handle_request returned for r_request
    r_history,       \* dispatcher: the message texts dealt with so far
    q_pc,            \* query: "build", "done"
    q_service,       \* query: the TransactionService
    q_query,         \* query: the TransactionQuery built so far
    q_result,        \* query: what service.query(&query) returned
    overflow_checks, \* the build panics on integer overflow (debug) or wraps
    hash_order,      \* the order in which a HashMap hands out its keys
    c_cache,         \* cache: the ApiResponseCache
    c_now,           \* cache: the monotonic clock (Instant::now()), in seconds
    c_op,            \* cache: the call made last, its key and the entry it found
    c_result,        \* cache: what get returned last
    c_removed,       \* cache: history, the keys the call made last removed
    k_poisoned,      \* client: the Mutex of the shared cache is poisoned
    k_lock,          \* client: the get_json call that holds the lock (0: none)
    k_calls,         \* client: the get_json calls, each with its position
    k_results,       \* client: what batch_requests returned, once it has
    k_op             \* client: the cache method called last, and its outcome

t_vars == <<t_pc, t_message, t_stream, t_result>>

h_vars == <<h_pc, h_handler, h_tool_name, h_params, h_tools, h_outcome, h_first>>

r_vars == <<r_pc, r_server, r_message, r_request, r_dispatch, r_history>>

s_vars == <<mcp_server, input, input_closed, reader_fails, reader_pos, output, writer_accepts,
            pc, msg, resp, calls, returned, sent, reads, answered>>

q_vars == <<q_pc, q_service, q_query, q_result>>

c_vars == <<c_cache, c_now, c_op, c_result, c_removed>>

k_vars == <<k_poisoned, k_lock, k_calls, k_results, k_op>>

\* the variables of the domain layer, of the cache and of the client
x_vars == <<q_vars, overflow_checks, hash_order, c_vars, k_vars>>

vars == <<t_vars, s_vars, h_vars, r_vars, x_vars>>

---------------------------------------------------------------------------
(* Bounds of the model. *)

\* longest message (in characters) of the transport round trip
MaxLen == 3

\* the most messages a client sends in one session
MaxMessages == 2

\* the most messages handed to one McpServer, one after the other
MaxRequests == 2

---------------------------------------------------------------------------
(* String literals of the source, as code points. *)

\* the texts of server/transport.rs (and of the io::Errors it passes on)
TransportText == [
    \* "Content-Length:"
    content_length_prefix |->
        <<67, 111, 110, 116, 101, 110, 116, 45, 76, 101, 110, 103, 116, 104,
        58>>,
    \* "Content-Length: "
    content_length_header |->
        <<67, 111, 110, 116, 101, 110, 116, 45, 76, 101, 110, 103, 116, 104,
        58, 32>>,
    \* "\r\n"
    crlf |-> <<13, 10>>,
    \* "Expected Content-Length header"
    expected_header |->
        <<69, 120, 112, 101, 99, 116, 101, 100, 32, 67, 111, 110, 116, 101,
        110, 116, 45, 76, 101, 110, 103, 116, 104, 32, 104, 101, 97, 100, 101,
        114>>,
    \* "Invalid Content-Length header"
    invalid_header |->
        <<73, 110, 118, 97, 108, 105, 100, 32, 67, 111, 110, 116, 101, 110,
        116, 45, 76, 101, 110, 103, 116, 104, 32, 104, 101, 97, 100, 101,
        114>>,
    \* "Invalid Content-Length value: "
    invalid_length_value |->
        <<73, 110, 118, 97, 108, 105, 100, 32, 67, 111, 110, 116, 101, 110,
        116, 45, 76, 101, 110, 103, 116, 104, 32, 118, 97, 108, 117, 101, 58,
        32>>,
    \* "Message content is not valid UTF-8"
    not_utf8 |->
        <<77, 101, 115, 115, 97, 103, 101, 32, 99, 111, 110, 116, 101, 110,
        116, 32, 105, 115, 32, 110, 111, 116, 32, 118, 97, 108, 105, 100, 32,
        85, 84, 70, 45, 56>>,
    \* "stream did not contain valid UTF-8"
    io_invalid_utf8 |->
        <<115, 116, 114, 101, 97, 109, 32, 100, 105, 100, 32, 110, 111, 116,
        32, 99, 111, 110, 116, 97, 105, 110, 32, 118, 97, 108, 105, 100, 32,
        85, 84, 70, 45, 56>>,
    \* "failed to fill whole buffer"
    io_unexpected_eof |->
        <<102, 97, 105, 108, 101, 100, 32, 116, 111, 32, 102, 105, 108, 108,
        32, 119, 104, 111, 108, 101, 32, 98, 117, 102, 102, 101, 114>>,
    \* "Broken pipe"
    io_broken_pipe |-> <<66, 114, 111, 107, 101, 110, 32, 112, 105, 112, 101>>,
    \* "Input/output error (os error 5)"
    io_input_output_error |->
        <<73, 110, 112, 117, 116, 47, 111, 117, 116, 112, 117, 116, 32, 101,
        114, 114, 111, 114, 32, 40, 111, 115, 32, 101, 114, 114, 111, 114,
        32, 53, 41>>
    ]

\* the texts serde_json writes
JsonText == [
    \* "null"
    null |-> <<110, 117, 108, 108>>,
    \* "true"
    true |-> <<116, 114, 117, 101>>,
    \* "false"
    false |-> <<102, 97, 108, 115, 101>>,
    \* "0123456789abcdef"
    hex_digits |->
        <<48, 49, 50, 51, 52, 53, 54, 55, 56, 57, 97, 98, 99, 100, 101, 102>>,
    \* "\u00"
    escape_u00 |-> <<92, 117, 48, 48>>
    ]

\* the texts of domain/error.rs
ErrorText == [
    \* "API request failed: "
    display_api_error |->
        <<65, 80, 73, 32, 114, 101, 113, 117, 101, 115, 116, 32, 102, 97, 105,
        108, 101, 100, 58, 32>>,
    \* "IO operation failed: "
    display_io_error |->
        <<73, 79, 32, 111, 112, 101, 114, 97, 116, 105, 111, 110, 32, 102, 97,
        105, 108, 101, 100, 58, 32>>,
    \* "Invalid budget ID: "
    display_invalid_budget_id |->
        <<73, 110, 118, 97, 108, 105, 100, 32, 98, 117, 100, 103, 101, 116,
        32, 73, 68, 58, 32>>
    ]

\* the texts of server/jsonrpc.rs
JsonRpcText == [
    \* "jsonrpc"
    jsonrpc |-> <<106, 115, 111, 110, 114, 112, 99>>,
    \* "id"
    id |-> <<105, 100>>,
    \* "method"
    method |-> <<109, 101, 116, 104, 111, 100>>,
    \* "params"
    params |-> <<112, 97, 114, 97, 109, 115>>,
    \* "result"
    result |-> <<114, 101, 115, 117, 108, 116>>,
    \* "error"
    error |-> <<101, 114, 114, 111, 114>>,
    \* "code"
    code |-> <<99, 111, 100, 101>>,
    \* "message"
    message |-> <<109, 101, 115, 115, 97, 103, 101>>,
    \* "data"
    data |-> <<100, 97, 116, 97>>,
    \* "2.0"
    version_2_0 |-> <<50, 46, 48>>,
    \* "Invalid JSON: "
    invalid_json |->
        <<73, 110, 118, 97, 108, 105, 100, 32, 74, 83, 79, 78, 58, 32>>,
    \* "Missing jsonrpc field"
    missing_jsonrpc |->
        <<77, 105, 115, 115, 105, 110, 103, 32, 106, 115, 111, 110, 114, 112,
        99, 32, 102, 105, 101, 108, 100>>,
    \* "Missing method field"
    missing_method |->
        <<77, 105, 115, 115, 105, 110, 103, 32, 109, 101, 116, 104, 111, 100,
        32, 102, 105, 101, 108, 100>>
    ]

\* the texts of server/handler.rs
HandlerText == [
    \* "budget_id"
    budget_id |-> <<98, 117, 100, 103, 101, 116, 95, 105, 100>>,
    \* "category_id"
    category_id |-> <<99, 97, 116, 101, 103, 111, 114, 121, 95, 105, 100>>,
    \* "category_name"
    category_name |->
        <<99, 97, 116, 101, 103, 111, 114, 121, 95, 110, 97, 109, 101>>,
    \* "limit"
    limit |-> <<108, 105, 109, 105, 116>>,
    \* "category_spending"
    category_spending |->
        <<99, 97, 116, 101, 103, 111, 114, 121, 95, 115, 112, 101, 110, 100,
        105, 110, 103>>,
    \* "category"
    category |-> <<99, 97, 116, 101, 103, 111, 114, 121>>,
    \* "amount_milliunits"
    amount_milliunits |->
        <<97, 109, 111, 117, 110, 116, 95, 109, 105, 108, 108, 105, 117, 110,
        105, 116, 115>>,
    \* "transaction_count"
    transaction_count |->
        <<116, 114, 97, 110, 115, 97, 99, 116, 105, 111, 110, 95, 99, 111,
        117, 110, 116>>,
    \* "data_source"
    data_source |-> <<100, 97, 116, 97, 95, 115, 111, 117, 114, 99, 101>>,
    \* "api_token_configured"
    api_token_configured |->
        <<97, 112, 105, 95, 116, 111, 107, 101, 110, 95, 99, 111, 110, 102,
        105, 103, 117, 114, 101, 100>>,
    \* "budget_overview"
    budget_overview |->
        <<98, 117, 100, 103, 101, 116, 95, 111, 118, 101, 114, 118, 105, 101,
        119>>,
    \* "total_expenses_milliunits"
    total_expenses_milliunits |->
        <<116, 111, 116, 97, 108, 95, 101, 120, 112, 101, 110, 115, 101, 115,
        95, 109, 105, 108, 108, 105, 117, 110, 105, 116, 115>>,
    \* "total_income_milliunits"
    total_income_milliunits |->
        <<116, 111, 116, 97, 108, 95, 105, 110, 99, 111, 109, 101, 95, 109,
        105, 108, 108, 105, 117, 110, 105, 116, 115>>,
    \* "net_income_milliunits"
    net_income_milliunits |->
        <<110, 101, 116, 95, 105, 110, 99, 111, 109, 101, 95, 109, 105, 108,
        108, 105, 117, 110, 105, 116, 115>>,
    \* "transactions"
    transactions |->
        <<116, 114, 97, 110, 115, 97, 99, 116, 105, 111, 110, 115>>,
    \* "count"
    count |-> <<99, 111, 117, 110, 116>>,
    \* "limited"
    limited |-> <<108, 105, 109, 105, 116, 101, 100>>,
    \* "spending_trends"
    spending_trends |->
        <<115, 112, 101, 110, 100, 105, 110, 103, 95, 116, 114, 101, 110, 100,
        115>>,
    \* "monthly_data"
    monthly_data |->
        <<109, 111, 110, 116, 104, 108, 121, 95, 100, 97, 116, 97>>,
    \* "month"
    month |-> <<109, 111, 110, 116, 104>>,
    \* "categories"
    categories |-> <<99, 97, 116, 101, 103, 111, 114, 105, 101, 115>>,
    \* "groceries"
    groceries |-> <<103, 114, 111, 99, 101, 114, 105, 101, 115>>,
    \* "dining"
    dining |-> <<100, 105, 110, 105, 110, 103>>,
    \* "trend_analysis"
    trend_analysis |->
        <<116, 114, 101, 110, 100, 95, 97, 110, 97, 108, 121, 115, 105, 115>>,
    \* "average_monthly_spending"
    average_monthly_spending |->
        <<97, 118, 101, 114, 97, 103, 101, 95, 109, 111, 110, 116, 104, 108,
        121, 95, 115, 112, 101, 110, 100, 105, 110, 103>>,
    \* "strongest_growth_category"
    strongest_growth_category |->
        <<115, 116, 114, 111, 110, 103, 101, 115, 116, 95, 103, 114, 111, 119,
        116, 104, 95, 99, 97, 116, 101, 103, 111, 114, 121>>,
    \* "largest_decline_category"
    largest_decline_category |->
        <<108, 97, 114, 103, 101, 115, 116, 95, 100, 101, 99, 108, 105, 110,
        101, 95, 99, 97, 116, 101, 103, 111, 114, 121>>,
    \* "months_analyzed"
    months_analyzed |->
        <<109, 111, 110, 116, 104, 115, 95, 97, 110, 97, 108, 121, 122, 101,
        100>>,
    \* "budget_health"
    budget_health |->
        <<98, 117, 100, 103, 101, 116, 95, 104, 101, 97, 108, 116, 104>>,
    \* "overall_score"
    overall_score |->
        <<111, 118, 101, 114, 97, 108, 108, 95, 115, 99, 111, 114, 101>>,
    \* "optimization_suggestions"
    optimization_suggestions |->
        <<111, 112, 116, 105, 109, 105, 122, 97, 116, 105, 111, 110, 95, 115,
        117, 103, 103, 101, 115, 116, 105, 111, 110, 115>>,
    \* "risk_categories"
    risk_categories |->
        <<114, 105, 115, 107, 95, 99, 97, 116, 101, 103, 111, 114, 105, 101,
        115>>,
    \* "subscriptions"
    subscriptions |->
        <<115, 117, 98, 115, 99, 114, 105, 112, 116, 105, 111, 110, 115>>,
    \* "spending_efficiency"
    spending_efficiency |->
        <<115, 112, 101, 110, 100, 105, 110, 103, 95, 101, 102, 102, 105, 99,
        105, 101, 110, 99, 121>>,
    \* "savings_rate_percentage"
    savings_rate_percentage |->
        <<115, 97, 118, 105, 110, 103, 115, 95, 114, 97, 116, 101, 95, 112,
        101, 114, 99, 101, 110, 116, 97, 103, 101>>,
    \* "category_breakdown"
    category_breakdown |->
        <<99, 97, 116, 101, 103, 111, 114, 121, 95, 98, 114, 101, 97, 107,
        100, 111, 119, 110>>,
    \* "over_budget_categories"
    over_budget_categories |->
        <<111, 118, 101, 114, 95, 98, 117, 100, 103, 101, 116, 95, 99, 97,
        116, 101, 103, 111, 114, 105, 101, 115>>,
    \* "healthy_categories"
    healthy_categories |->
        <<104, 101, 97, 108, 116, 104, 121, 95, 99, 97, 116, 101, 103, 111,
        114, 105, 101, 115>>,
    \* "categories_trending_up"
    categories_trending_up |->
        <<99, 97, 116, 101, 103, 111, 114, 105, 101, 115, 95, 116, 114, 101,
        110, 100, 105, 110, 103, 95, 117, 112>>,
    \* "gas"
    gas |-> <<103, 97, 115>>,
    \* "ynab_api"
    ynab_api |-> <<121, 110, 97, 98, 95, 97, 112, 105>>,
    \* "2024-01"
    month_2024_01 |-> <<50, 48, 50, 52, 45, 48, 49>>,
    \* "2024-02"
    month_2024_02 |-> <<50, 48, 50, 52, 45, 48, 50>>,
    \* "Unknown tool: "
    unknown_tool |->
        <<85, 110, 107, 110, 111, 119, 110, 32, 116, 111, 111, 108, 58, 32>>,
    \* "Invalid API token"
    invalid_api_token |->
        <<73, 110, 118, 97, 108, 105, 100, 32, 65, 80, 73, 32, 116, 111, 107,
        101, 110>>,
    \* "analyze_category_spending"
    analyze_category_spending |->
        <<97, 110, 97, 108, 121, 122, 101, 95, 99, 97, 116, 101, 103, 111,
        114, 121, 95, 115, 112, 101, 110, 100, 105, 110, 103>>,
    \* "Analyzes spending for specific categories with optional date filtering"
    analyze_category_spending_description |->
        <<65, 110, 97, 108, 121, 122, 101, 115, 32, 115, 112, 101, 110, 100,
        105, 110, 103, 32, 102, 111, 114, 32, 115, 112, 101, 99, 105, 102,
        105, 99, 32, 99, 97, 116, 101, 103, 111, 114, 105, 101, 115, 32, 119,
        105, 116, 104, 32, 111, 112, 116, 105, 111, 110, 97, 108, 32, 100, 97,
        116, 101, 32, 102, 105, 108, 116, 101, 114, 105, 110, 103>>,
    \* "get_budget_overview"
    get_budget_overview |->
        <<103, 101, 116, 95, 98, 117, 100, 103, 101, 116, 95, 111, 118, 101,
        114, 118, 105, 101, 119>>,
    \* "Provides a comprehensive overview of budget status and spending"
    get_budget_overview_description |->
        <<80, 114, 111, 118, 105, 100, 101, 115, 32, 97, 32, 99, 111, 109,
        112, 114, 101, 104, 101, 110, 115, 105, 118, 101, 32, 111, 118, 101,
        114, 118, 105, 101, 119, 32, 111, 102, 32, 98, 117, 100, 103, 101,
        116, 32, 115, 116, 97, 116, 117, 115, 32, 97, 110, 100, 32, 115, 112,
        101, 110, 100, 105, 110, 103>>,
    \* "search_transactions"
    search_transactions |->
        <<115, 101, 97, 114, 99, 104, 95, 116, 114, 97, 110, 115, 97, 99, 116,
        105, 111, 110, 115>>,
    \* "Searches transactions with advanced filtering and sorting options"
    search_transactions_description |->
        <<83, 101, 97, 114, 99, 104, 101, 115, 32, 116, 114, 97, 110, 115, 97,
        99, 116, 105, 111, 110, 115, 32, 119, 105, 116, 104, 32, 97, 100, 118,
        97, 110, 99, 101, 100, 32, 102, 105, 108, 116, 101, 114, 105, 110,
        103, 32, 97, 110, 100, 32, 115, 111, 114, 116, 105, 110, 103, 32, 111,
        112, 116, 105, 111, 110, 115>>,
    \* "analyze_spending_trends"
    analyze_spending_trends |->
        <<97, 110, 97, 108, 121, 122, 101, 95, 115, 112, 101, 110, 100, 105,
        110, 103, 95, 116, 114, 101, 110, 100, 115>>,
    \* "Analyzes spending trends over multiple months with detailed breakdowns"
    analyze_spending_trends_description |->
        <<65, 110, 97, 108, 121, 122, 101, 115, 32, 115, 112, 101, 110, 100,
        105, 110, 103, 32, 116, 114, 101, 110, 100, 115, 32, 111, 118, 101,
        114, 32, 109, 117, 108, 116, 105, 112, 108, 101, 32, 109, 111, 110,
        116, 104, 115, 32, 119, 105, 116, 104, 32, 100, 101, 116, 97, 105,
        108, 101, 100, 32, 98, 114, 101, 97, 107, 100, 111, 119, 110, 115>>,
    \* "budget_health_check"
    budget_health_check |->
        <<98, 117, 100, 103, 101, 116, 95, 104, 101, 97, 108, 116, 104, 95,
        99, 104, 101, 99, 107>>,
    \* "Performs comprehensive budget health analysis with optimization suggestions"
    budget_health_check_description |->
        <<80, 101, 114, 102, 111, 114, 109, 115, 32, 99, 111, 109, 112, 114,
        101, 104, 101, 110, 115, 105, 118, 101, 32, 98, 117, 100, 103, 101,
        116, 32, 104, 101, 97, 108, 116, 104, 32, 97, 110, 97, 108, 121, 115,
        105, 115, 32, 119, 105, 116, 104, 32, 111, 112, 116, 105, 109, 105,
        122, 97, 116, 105, 111, 110, 32, 115, 117, 103, 103, 101, 115, 116,
        105, 111, 110, 115>>,
    \* "Your grocery spending is 15% above the recommended amount for your income level"
    suggestion_1 |->
        <<89, 111, 117, 114, 32, 103, 114, 111, 99, 101, 114, 121, 32, 115,
        112, 101, 110, 100, 105, 110, 103, 32, 105, 115, 32, 49, 53, 37, 32,
        97, 98, 111, 118, 101, 32, 116, 104, 101, 32, 114, 101, 99, 111, 109,
        109, 101, 110, 100, 101, 100, 32, 97, 109, 111, 117, 110, 116, 32,
        102, 111, 114, 32, 121, 111, 117, 114, 32, 105, 110, 99, 111, 109,
        101, 32, 108, 101, 118, 101, 108>>,
    \* "Consider automating savings to reach a 20% savings rate"
    suggestion_2 |->
        <<67, 111, 110, 115, 105, 100, 101, 114, 32, 97, 117, 116, 111, 109,
        97, 116, 105, 110, 103, 32, 115, 97, 118, 105, 110, 103, 115, 32, 116,
        111, 32, 114, 101, 97, 99, 104, 32, 97, 32, 50, 48, 37, 32, 115, 97,
        118, 105, 110, 103, 115, 32, 114, 97, 116, 101>>,
    \* "Review recurring subscriptions - you have $47/month in unused services"
    suggestion_3 |->
        <<82, 101, 118, 105, 101, 119, 32, 114, 101, 99, 117, 114, 114, 105,
        110, 103, 32, 115, 117, 98, 115, 99, 114, 105, 112, 116, 105, 111,
        110, 115, 32, 45, 32, 121, 111, 117, 32, 104, 97, 118, 101, 32, 36,
        52, 55, 47, 109, 111, 110, 116, 104, 32, 105, 110, 32, 117, 110, 117,
        115, 101, 100, 32, 115, 101, 114, 118, 105, 99, 101, 115>>,
    \* "Emergency fund is healthy at 4.2 months of expenses"
    suggestion_4 |->
        <<69, 109, 101, 114, 103, 101, 110, 99, 121, 32, 102, 117, 110, 100,
        32, 105, 115, 32, 104, 101, 97, 108, 116, 104, 121, 32, 97, 116, 32,
        52, 46, 50, 32, 109, 111, 110, 116, 104, 115, 32, 111, 102, 32, 101,
        120, 112, 101, 110, 115, 101, 115>>,
    \* "Groceries"
    Groceries |-> <<71, 114, 111, 99, 101, 114, 105, 101, 115>>,
    \* "total_budgeted"
    total_budgeted |->
        <<116, 111, 116, 97, 108, 95, 98, 117, 100, 103, 101, 116, 101, 100>>,
    \* "total_spent"
    total_spent |-> <<116, 111, 116, 97, 108, 95, 115, 112, 101, 110, 116>>,
    \* "categories_over_budget"
    categories_over_budget |->
        <<99, 97, 116, 101, 103, 111, 114, 105, 101, 115, 95, 111, 118, 101,
        114, 95, 98, 117, 100, 103, 101, 116>>,
    \* "months"
    months |-> <<109, 111, 110, 116, 104, 115>>,
    \* "2024-"
    month_2024 |-> <<50, 48, 50, 52, 45>>,
    \* "total_categories_analyzed"
    total_categories_analyzed |->
        <<116, 111, 116, 97, 108, 95, 99, 97, 116, 101, 103, 111, 114, 105,
        101, 115, 95, 97, 110, 97, 108, 121, 122, 101, 100>>,
    \* "categories_count"
    categories_count |->
        <<99, 97, 116, 101, 103, 111, 114, 105, 101, 115, 95, 99, 111, 117,
        110, 116>>,
    \* "domain_service"
    domain_service |->
        <<100, 111, 109, 97, 105, 110, 95, 115, 101, 114, 118, 105, 99, 101>>,
    \* "entertainment"
    entertainment |->
        <<101, 110, 116, 101, 114, 116, 97, 105, 110, 109, 101, 110, 116>>,
    \* "trending_up"
    trending_up |-> <<116, 114, 101, 110, 100, 105, 110, 103, 95, 117, 112>>,
    \* "trending_down"
    trending_down |->
        <<116, 114, 101, 110, 100, 105, 110, 103, 95, 100, 111, 119, 110>>,
    \* "category_analysis"
    category_analysis |->
        <<99, 97, 116, 101, 103, 111, 114, 121, 95, 97, 110, 97, 108, 121,
        115, 105, 115>>,
    \* "expense_to_income_ratio"
    expense_to_income_ratio |->
        <<101, 120, 112, 101, 110, 115, 101, 95, 116, 111, 95, 105, 110, 99,
        111, 109, 101, 95, 114, 97, 116, 105, 111>>,
    \* "Increase savings rate to at least 10% of income"
    increase_savings_rate |->
        <<73, 110, 99, 114, 101, 97, 115, 101, 32, 115, 97, 118, 105, 110,
        103, 115, 32, 114, 97, 116, 101, 32, 116, 111, 32, 97, 116, 32, 108,
        101, 97, 115, 116, 32, 49, 48, 37, 32, 111, 102, 32, 105, 110, 99,
        111, 109, 101>>,
    \* "Reduce expenses to achieve positive cash flow"
    reduce_expenses |->
        <<82, 101, 100, 117, 99, 101, 32, 101, 120, 112, 101, 110, 115, 101,
        115, 32, 116, 111, 32, 97, 99, 104, 105, 101, 118, 101, 32, 112, 111,
        115, 105, 116, 105, 118, 101, 32, 99, 97, 115, 104, 32, 102, 108,
        111, 119>>,
    \* "Consider reducing dining out expenses"
    fallback_suggestion_1 |->
        <<67, 111, 110, 115, 105, 100, 101, 114, 32, 114, 101, 100, 117, 99,
        105, 110, 103, 32, 100, 105, 110, 105, 110, 103, 32, 111, 117, 116,
        32, 101, 120, 112, 101, 110, 115, 101, 115>>,
    \* "Increase emergency fund to 6 months of expenses"
    fallback_suggestion_2 |->
        <<73, 110, 99, 114, 101, 97, 115, 101, 32, 101, 109, 101, 114, 103,
        101, 110, 99, 121, 32, 102, 117, 110, 100, 32, 116, 111, 32, 54, 32,
        109, 111, 110, 116, 104, 115, 32, 111, 102, 32, 101, 120, 112, 101,
        110, 115, 101, 115>>,
    \* "Review subscription services for potential savings"
    fallback_suggestion_3 |->
        <<82, 101, 118, 105, 101, 119, 32, 115, 117, 98, 115, 99, 114, 105,
        112, 116, 105, 111, 110, 32, 115, 101, 114, 118, 105, 99, 101, 115,
        32, 102, 111, 114, 32, 112, 111, 116, 101, 110, 116, 105, 97, 108,
        32, 115, 97, 118, 105, 110, 103, 115>>,
    \* "attempt to add with overflow"
    attempt_to_add_with_overflow |->
        <<97, 116, 116, 101, 109, 112, 116, 32, 116, 111, 32, 97, 100, 100,
        32, 119, 105, 116, 104, 32, 111, 118, 101, 114, 102, 108, 111, 119>>,
    \* "attempt to subtract with overflow"
    attempt_to_subtract_with_overflow |->
        <<97, 116, 116, 101, 109, 112, 116, 32, 116, 111, 32, 115, 117, 98,
        116, 114, 97, 99, 116, 32, 119, 105, 116, 104, 32, 111, 118, 101,
        114, 102, 108, 111, 119>>,
    \* "attempt to multiply with overflow"
    attempt_to_multiply_with_overflow |->
        <<97, 116, 116, 101, 109, 112, 116, 32, 116, 111, 32, 109, 117, 108,
        116, 105, 112, 108, 121, 32, 119, 105, 116, 104, 32, 111, 118, 101,
        114, 102, 108, 111, 119>>,
    \* "attempt to negate with overflow"
    attempt_to_negate_with_overflow |->
        <<97, 116, 116, 101, 109, 112, 116, 32, 116, 111, 32, 110, 101, 103,
        97, 116, 101, 32, 119, 105, 116, 104, 32, 111, 118, 101, 114, 102,
        108, 111, 119>>,
    \* "Consider reducing spending in "
    consider_reducing_spending_in |->
        <<67, 111, 110, 115, 105, 100, 101, 114, 32, 114, 101, 100, 117, 99,
        105, 110, 103, 32, 115, 112, 101, 110, 100, 105, 110, 103, 32, 105,
        110, 32>>,
    \* " category"
    category_suffix |-> <<32, 99, 97, 116, 101, 103, 111, 114, 121>>,
    \* "attempt to divide by zero"
    attempt_to_divide_by_zero |->
        <<97, 116, 116, 101, 109, 112, 116, 32, 116, 111, 32, 100, 105, 118,
        105, 100, 101, 32, 98, 121, 32, 122, 101, 114, 111>>,
    \* "text_search"
    text_search |-> <<116, 101, 120, 116, 95, 115, 101, 97, 114, 99, 104>>,
    \* "min_amount_milliunits"
    min_amount_milliunits |->
        <<109, 105, 110, 95, 97, 109, 111, 117, 110, 116, 95, 109, 105, 108,
        108, 105, 117, 110, 105, 116, 115>>,
    \* "account_id"
    account_id |-> <<97, 99, 99, 111, 117, 110, 116, 95, 105, 100>>,
    \* "id"
    id |-> <<105, 100>>,
    \* "description"
    description |-> <<100, 101, 115, 99, 114, 105, 112, 116, 105, 111, 110>>
    ]

\* the texts of server/mcp_protocol.rs
McpText == [
    \* "name"
    name |-> <<110, 97, 109, 101>>,
    \* "arguments"
    arguments |-> <<97, 114, 103, 117, 109, 101, 110, 116, 115>>,
    \* "content"
    content |-> <<99, 111, 110, 116, 101, 110, 116>>,
    \* "type"
    type |-> <<116, 121, 112, 101>>,
    \* "text"
    text |-> <<116, 101, 120, 116>>,
    \* "tools"
    tools |-> <<116, 111, 111, 108, 115>>,
    \* "description"
    description |-> <<100, 101, 115, 99, 114, 105, 112, 116, 105, 111, 110>>,
    \* "protocolVersion"
    protocolVersion |->
        <<112, 114, 111, 116, 111, 99, 111, 108, 86, 101, 114, 115, 105, 111,
        110>>,
    \* "capabilities"
    capabilities |->
        <<99, 97, 112, 97, 98, 105, 108, 105, 116, 105, 101, 115>>,
    \* "serverInfo"
    serverInfo |-> <<115, 101, 114, 118, 101, 114, 73, 110, 102, 111>>,
    \* "version"
    version |-> <<118, 101, 114, 115, 105, 111, 110>>,
    \* "initialize"
    initialize |-> <<105, 110, 105, 116, 105, 97, 108, 105, 122, 101>>,
    \* "tools/list"
    tools_list |-> <<116, 111, 111, 108, 115, 47, 108, 105, 115, 116>>,
    \* "tools/call"
    tools_call |-> <<116, 111, 111, 108, 115, 47, 99, 97, 108, 108>>,
    \* "2024-11-05"
    protocol_version |-> <<50, 48, 50, 52, 45, 49, 49, 45, 48, 53>>,
    \* "ynab-mcp-server"
    server_name |->
        <<121, 110, 97, 98, 45, 109, 99, 112, 45, 115, 101, 114, 118, 101,
        114>>,
    \* "0.1.0"
    server_version |-> <<48, 46, 49, 46, 48>>,
    \* "Method not found"
    method_not_found |->
        <<77, 101, 116, 104, 111, 100, 32, 110, 111, 116, 32, 102, 111, 117,
        110, 100>>,
    \* "Tool execution failed: "
    tool_execution_failed |->
        <<84, 111, 111, 108, 32, 101, 120, 101, 99, 117, 116, 105, 111, 110,
        32, 102, 97, 105, 108, 101, 100, 58, 32>>,
    \* "Missing params for tools/call"
    missing_params |->
        <<77, 105, 115, 115, 105, 110, 103, 32, 112, 97, 114, 97, 109, 115,
        32, 102, 111, 114, 32, 116, 111, 111, 108, 115, 47, 99, 97, 108,
        108>>,
    \* "Missing tool name"
    missing_tool_name |->
        <<77, 105, 115, 115, 105, 110, 103, 32, 116, 111, 111, 108, 32, 110,
        97, 109, 101>>
    ]

\* the texts of server/mod.rs
ServerText == [
    \* "Parse error: "
    parse_error |->
        <<80, 97, 114, 115, 101, 32, 101, 114, 114, 111, 114, 58, 32>>,
    \* "Server error: "
    server_error |->
        <<83, 101, 114, 118, 101, 114, 32, 101, 114, 114, 111, 114, 58, 32>>
    ]

\* the texts of the clients of the model (as in the tests of the source)
ClientText == [
    \* "unknown/method"
    unknown_method |->
        <<117, 110, 107, 110, 111, 119, 110, 47, 109, 101, 116, 104, 111,
        100>>,
    \* "nonexistent_tool"
    nonexistent_tool |->
        <<110, 111, 110, 101, 120, 105, 115, 116, 101, 110, 116, 95, 116, 111,
        111, 108>>,
    \* "notifications/initialized"
    notifications_initialized |->
        <<110, 111, 116, 105, 102, 105, 99, 97, 116, 105, 111, 110, 115, 47,
        105, 110, 105, 116, 105, 97, 108, 105, 122, 101, 100>>,
    \* "test-budget"
    test_budget |-> <<116, 101, 115, 116, 45, 98, 117, 100, 103, 101, 116>>,
    \* "Groceries"
    Groceries |-> <<71, 114, 111, 99, 101, 114, 105, 101, 115>>,
    \* "abc"
    abc |-> <<97, 98, 99>>,
    \* "{"invalid":json"
    invalid_text |->
        <<123, 34, 105, 110, 118, 97, 108, 105, 100, 34, 58, 106, 115, 111,
        110>>,
    \* "test-token"
    test_token |-> <<116, 101, 115, 116, 45, 116, 111, 107, 101, 110>>,
    \* "GET_BUDGET_OVERVIEW"
    GET_BUDGET_OVERVIEW |->
        <<71, 69, 84, 95, 66, 85, 68, 71, 69, 84, 95, 79, 86, 69, 82, 86, 73,
        69, 87>>,
    \* "search_transactions "
    search_transactions_space |->
        <<115, 101, 97, 114, 99, 104, 95, 116, 114, 97, 110, 115, 97, 99,
        116, 105, 111, 110, 115, 32>>,
    \* "1.0"
    version_1_0 |-> <<49, 46, 48>>,
    \* "Invalid-Header: 42\r\n\r\ntest"
    raw_invalid_header |->
        <<73, 110, 118, 97, 108, 105, 100, 45, 72, 101, 97, 100, 101, 114,
        58, 32, 52, 50, 13, 10, 13, 10, 116, 101, 115, 116>>,
    \* "content-length: 2\r\n\r\n{}"
    raw_lower_case |->
        <<99, 111, 110, 116, 101, 110, 116, 45, 108, 101, 110, 103, 116, 104,
        58, 32, 50, 13, 10, 13, 10, 123, 125>>,
    \* " Content-Length: 2\r\n\r\n{}"
    raw_leading_space |->
        <<32, 67, 111, 110, 116, 101, 110, 116, 45, 76, 101, 110, 103, 116,
        104, 58, 32, 50, 13, 10, 13, 10, 123, 125>>,
    \* "Content-Length: not-a-number\r\n\r\ntest"
    raw_not_a_number |->
        <<67, 111, 110, 116, 101, 110, 116, 45, 76, 101, 110, 103, 116, 104,
        58, 32, 110, 111, 116, 45, 97, 45, 110, 117, 109, 98, 101, 114, 13,
        10, 13, 10, 116, 101, 115, 116>>,
    \* "Content-Length: -1\r\n\r\n{}"
    raw_negative |->
        <<67, 111, 110, 116, 101, 110, 116, 45, 76, 101, 110, 103, 116, 104,
        58, 32, 45, 49, 13, 10, 13, 10, 123, 125>>,
    \* "Content-Length:\r\n\r\n{}"
    raw_no_value |->
        <<67, 111, 110, 116, 101, 110, 116, 45, 76, 101, 110, 103, 116, 104,
        58, 13, 10, 13, 10, 123, 125>>,
    \* "Content-Length: 100\r\n\r\nshort"
    raw_mismatch |->
        <<67, 111, 110, 116, 101, 110, 116, 45, 76, 101, 110, 103, 116, 104,
        58, 32, 49, 48, 48, 13, 10, 13, 10, 115, 104, 111, 114, 116>>,
    \* "Content-Length: 5\r\n"
    raw_header_only |->
        <<67, 111, 110, 116, 101, 110, 116, 45, 76, 101, 110, 103, 116, 104,
        58, 32, 53, 13, 10>>,
    \* "Content-Length: 3\r\n\r\n"
    raw_three_bytes |->
        <<67, 111, 110, 116, 101, 110, 116, 45, 76, 101, 110, 103, 116, 104,
        58, 32, 51, 13, 10, 13, 10>>,
    \* "Content-Length: 18446744073709551615\r\n\r\n{}"
    raw_usize_max |->
        <<67, 111, 110, 116, 101, 110, 116, 45, 76, 101, 110, 103, 116, 104,
        58, 32, 49, 56, 52, 52, 54, 55, 52, 52, 48, 55, 51, 55, 48, 57, 53,
        53, 49, 54, 49, 53, 13, 10, 13, 10, 123, 125>>,
    \* "Content-Length: 18446744073709551616\r\n\r\n{}"
    raw_over_usize |->
        <<67, 111, 110, 116, 101, 110, 116, 45, 76, 101, 110, 103, 116, 104,
        58, 32, 49, 56, 52, 52, 54, 55, 52, 52, 48, 55, 51, 55, 48, 57, 53,
        53, 49, 54, 49, 54, 13, 10, 13, 10, 123, 125>>,
    \* "Content-Length: 2\r\n\r\n{}"
    raw_valid |->
        <<67, 111, 110, 116, 101, 110, 116, 45, 76, 101, 110, 103, 116, 104,
        58, 32, 50, 13, 10, 13, 10, 123, 125>>,
    \* "Content-Length: +2\r\n\r\n{}"
    raw_plus |->
        <<67, 111, 110, 116, 101, 110, 116, 45, 76, 101, 110, 103, 116, 104,
        58, 32, 43, 50, 13, 10, 13, 10, 123, 125>>,
    \* "\r\n"
    raw_blank |-> <<13, 10>>
    ]

---------------------------------------------------------------------------
(* Sequences, characters, UTF-8. *)

Min(a, b) == IF a < b THEN a ELSE b
Max(a, b) == IF a < b THEN b ELSE a

\* s.starts_with(p)
starts_with(s, p) ==
    /\ Len(p) <= Len(s)
    /\ SubSeq(s, 1, Len(p)) = p

\* `let name = value;` and what follows it: body, with the value for the name
\* (the value is computed once, before the body)
Let(value, body(_)) == CHOOSE result \in {body(name) : name \in {value}} : TRUE

\* the tail of s from index i on (1-based), empty when i > Len(s)
Drop(s, i) == SubSeq(s, i, Len(s))

RECURSIVE Concat(_)
\* the concatenation of a sequence of sequences (by halves)
Concat(ss) ==
    IF ss = <<>> THEN <<>>
    ELSE IF Len(ss) = 1 THEN ss[1]
    ELSE Concat(SubSeq(ss, 1, Len(ss) \div 2))
         \o Concat(SubSeq(ss, Len(ss) \div 2 + 1, Len(ss)))

\* char::is_whitespace, the characters str::trim removes
is_whitespace(c) ==
    \/ c \in 9..13
    \/ c \in {32, 133, 160, 5760, 8232, 8233, 8239, 8287, 12288}
    \/ c \in 8192..8202

RECURSIVE trim_start(_)
trim_start(s) ==
    IF s # <<>> /\ is_whitespace(Head(s)) THEN trim_start(Tail(s)) ELSE s

RECURSIVE trim_end(_)
trim_end(s) ==
    IF s # <<>> /\ is_whitespace(s[Len(s)])
    THEN trim_end(SubSeq(s, 1, Len(s) - 1))
    ELSE s

\* str::trim
trim(s) == trim_end(trim_start(s))

\* the UTF-8 encoding of one code point
utf8_char(c) ==
    IF c < 128 THEN <<c>>
    ELSE IF c < 2048 THEN <<192 + (c \div 64), 128 + (c % 64)>>
    ELSE IF c < 65536
         THEN <<224 + (c \div 4096), 128 + ((c \div 64) % 64), 128 + (c % 64)>>
    ELSE <<240 + (c \div 262144), 128 + ((c \div 4096) % 64),
           128 + ((c \div 64) % 64), 128 + (c % 64)>>

\* str::as_bytes: the UTF-8 bytes of a string
as_bytes(s) == Concat([k \in 1..Len(s) |-> utf8_char(s[k])])

\* a length that counts characters, as str::chars().count() does
char_count(s) == Len(s)

\* str::len: the length in bytes
byte_len(s) == Len(as_bytes(s))

IsCont(b) == b \in 128..191

\* the number of bytes of the UTF-8 sequence that starts at bs[k], or 0 when
\* no valid sequence starts there
utf8_width(bs, k) ==
    IF bs[k] < 128 THEN 1
    ELSE IF bs[k] \in 194..223
         THEN IF Len(bs) >= k + 1 /\ IsCont(bs[k + 1]) THEN 2 ELSE 0
    ELSE IF bs[k] \in 224..239
         THEN IF /\ Len(bs) >= k + 2 /\ IsCont(bs[k + 1]) /\ IsCont(bs[k + 2])
                 /\ (bs[k] = 224 => bs[k + 1] >= 160)
                 /\ (bs[k] = 237 => bs[k + 1] <= 159)
              THEN 3 ELSE 0
    ELSE IF bs[k] \in 240..244
         THEN IF /\ Len(bs) >= k + 3 /\ IsCont(bs[k + 1]) /\ IsCont(bs[k + 2])
                 /\ IsCont(bs[k + 3])
                 /\ (bs[k] = 240 => bs[k + 1] >= 144)
                 /\ (bs[k] = 244 => bs[k + 1] <= 143)
              THEN 4 ELSE 0
    ELSE 0

\* the code point of the valid UTF-8 sequence of w bytes at bs[k]
code_point(bs, k, w) ==
    IF w = 1 THEN bs[k]
    ELSE IF w = 2 THEN (bs[k] - 192) * 64 + (bs[k + 1] - 128)
    ELSE IF w = 3
         THEN (bs[k] - 224) * 4096 + (bs[k + 1] - 128) * 64 + (bs[k + 2] - 128)
    ELSE (bs[k] - 240) * 262144 + (bs[k + 1] - 128) * 4096
         + (bs[k + 2] - 128) * 64 + (bs[k + 3] - 128)

\* the code point of the valid UTF-8 sequence at bs[k]
utf8_code_point(bs, k) == code_point(bs, k, utf8_width(bs, k))

\* the indexes, in order, of the bytes that are no continuation bytes
utf8_starts(bs) == SelectSeq([k \in 1..Len(bs) |-> k], LAMBDA k : ~IsCont(bs[k]))

\* bs is UTF-8: a valid sequence starts at every byte that is no continuation
\* byte, and ends where the next such byte, or the end, is
utf8_valid(bs) ==
    /\ bs # <<>> => ~IsCont(bs[1])
    /\ Let(utf8_starts(bs), LAMBDA starts :
           \A j \in 1..Len(starts) :
              Let(utf8_width(bs, starts[j]), LAMBDA w :
                  /\ w > 0
                  /\ starts[j] + w
                       = (IF j < Len(starts) THEN starts[j + 1] ELSE Len(bs) + 1)))

\* the string of a valid UTF-8 byte sequence
utf8_decode(bs) ==
    Let(utf8_starts(bs), LAMBDA starts :
        [j \in 1..Len(starts) |-> utf8_code_point(bs, starts[j])])

\* String::from_utf8
from_utf8(bs) ==
    IF utf8_valid(bs)
    THEN [ok |-> TRUE, value |-> utf8_decode(bs)]
    ELSE [ok |-> FALSE, value |-> <<>>]

RECURSIVE to_decimal(_)
\* format!("{}", n) of an unsigned number
to_decimal(n) ==
    IF n < 10 THEN <<48 + n>>
    ELSE to_decimal(n \div 10) \o <<48 + (n % 10)>>

IsDigit(c) == c \in 48..57

RECURSIVE digits_value(_)
digits_value(s) ==
    IF s = <<>> THEN 0
    ELSE digits_value(SubSeq(s, 1, Len(s) - 1)) * 10 + (s[Len(s)] - 48)

\* the largest usize and the largest isize of a 64-bit build, in decimal
Limits == [
    \* "18446744073709551615"
    usize_MAX |-> <<49, 56, 52, 52, 54, 55, 52, 52, 48, 55, 51, 55, 48, 57, 53, 53,
                    49, 54, 49, 53>>,
    \* "9223372036854775807"
    isize_MAX |-> <<57, 50, 50, 51, 51, 55, 50, 48, 51, 54, 56, 53, 52, 55, 55, 53,
                    56, 48, 55>>
    ]

RECURSIVE significant(_)
\* decimal digits without their leading zeros
significant(digits) ==
    IF digits # <<>> /\ Head(digits) = 48 THEN significant(Tail(digits)) ELSE digits

\* a <= b for numbers given by their significant decimal digits
decimal_le(a, b) ==
    \/ Len(a) < Len(b)
    \/ /\ Len(a) = Len(b)
       /\ \A k \in 1..Len(a) : a[k] > b[k] => \E j \in 1..(k - 1) : a[j] < b[j]

\* the value that stands for every length of 10^9 and more (no stream of
\* this model has that many bytes)
SATURATED == 1000000000

\* str::parse::<usize>: an optional '+' and then one or more ASCII digits
\* whose value is at most usize::MAX.  `value` is exact below 10^9 and
\* SATURATED from there on; `over_isize_max` says that it exceeds isize::MAX.
parse_usize(s) ==
    Let(IF s # <<>> /\ Head(s) = 43 THEN Tail(s) ELSE s, LAMBDA digits :
        IF /\ digits # <<>>
           /\ \A i \in 1..Len(digits) : IsDigit(digits[i])
           /\ decimal_le(significant(digits), Limits.usize_MAX)
        THEN [ok |-> TRUE,
              value |-> IF Len(significant(digits)) <= 9
                        THEN digits_value(significant(digits))
                        ELSE SATURATED,
              over_isize_max |-> ~decimal_le(significant(digits), Limits.isize_MAX)]
        ELSE [ok |-> FALSE, value |-> 0, over_isize_max |-> FALSE])

---------------------------------------------------------------------------
(* i64.  A value is its 64 bits in two's complement, as four limbs of 16   *)
(* bits, the most significant first.  Every operation returns the wrapped  *)
(* result together with `overflow`: a build with overflow checks (debug)   *)
(* panics where overflow is TRUE, a build without (release) goes on with   *)
(* the wrapped result.                                                     *)

LIMB == 2^16

i64_MIN == <<32768, 0, 0, 0>>
i64_MAX == <<32767, 65535, 65535, 65535>>

is_negative(a) == a[1] >= 32768

\* the bits of a + b + carry_in, and the carry out of bit 63
add_with_carry(a, b, carry_in) ==
    Let(a[4] + b[4] + carry_in, LAMBDA s4 :
    Let(a[3] + b[3] + (s4 \div LIMB), LAMBDA s3 :
    Let(a[2] + b[2] + (s3 \div LIMB), LAMBDA s2 :
    Let(a[1] + b[1] + (s2 \div LIMB), LAMBDA s1 :
        [value |-> <<s1 % LIMB, s2 % LIMB, s3 % LIMB, s4 % LIMB>>,
         carry |-> s1 \div LIMB]))))

wrapping_add(a, b) == add_with_carry(a, b, 0).value

\* !a
not(a) == [k \in 1..4 |-> (LIMB - 1) - a[k]]

wrapping_neg(a) == add_with_carry(not(a), <<0, 0, 0, 0>>, 1).value

\* a + b: overflows when both have the sign the result has not
overflowing_add(a, b) ==
    Let(wrapping_add(a, b), LAMBDA sum :
        [value |-> sum,
         overflow |-> /\ is_negative(a) = is_negative(b)
                      /\ is_negative(sum) # is_negative(a)])

\* a - b: overflows when the signs differ and the result has not a's
overflowing_sub(a, b) ==
    Let(add_with_carry(a, not(b), 1).value, LAMBDA difference :
        [value |-> difference,
         overflow |-> /\ is_negative(a) # is_negative(b)
                      /\ is_negative(difference) # is_negative(a)])

\* a.abs(): i64::MIN has no absolute value
overflowing_abs(a) ==
    [value |-> IF is_negative(a) THEN wrapping_neg(a) ELSE a,
     overflow |-> a = i64_MIN]

\* the limbs as an unsigned number are less
unsigned_lt(a, b) ==
    \E k \in 1..4 : a[k] < b[k] /\ \A j \in 1..(k - 1) : a[j] = b[j]

\* a < b
i64_lt(a, b) ==
    IF is_negative(a) # is_negative(b) THEN is_negative(a) ELSE unsigned_lt(a, b)

i64_le(a, b) == ~i64_lt(b, a)

\* the i64 of a number of the model (below 2^31 in magnitude)
i64(n) ==
    IF n >= 0 THEN <<0, 0, n \div LIMB, n % LIMB>>
    ELSE wrapping_neg(<<0, 0, (-n) \div LIMB, (-n) % LIMB>>)

\* the i64 is below 2^31 in magnitude
is_small(a) ==
    Let(IF is_negative(a) THEN wrapping_neg(a) ELSE a, LAMBDA magnitude :
        magnitude[1] = 0 /\ magnitude[2] = 0 /\ magnitude[3] < 32768)

\* the number a small i64 stands for
milliunits(a) ==
    IF is_negative(a) THEN -(wrapping_neg(a)[3] * LIMB + wrapping_neg(a)[4])
    ELSE a[3] * LIMB + a[4]

\* the unsigned number of the limbs divided by d (0 < d < 2^15), and the
\* remainder
unsigned_div(a, d) ==
    Let(a[1], LAMBDA n1 :
    Let((n1 % d) * LIMB + a[2], LAMBDA n2 :
    Let((n2 % d) * LIMB + a[3], LAMBDA n3 :
    Let((n3 % d) * LIMB + a[4], LAMBDA n4 :
        [quotient |-> <<n1 \div d, n2 \div d, n3 \div d, n4 \div d>>,
         remainder |-> n4 % d]))))

\* a / d for 0 < d < 2^15: the quotient rounded towards zero
i64_div(a, d) ==
    IF is_negative(a) THEN wrapping_neg(unsigned_div(wrapping_neg(a), d).quotient)
    ELSE unsigned_div(a, d).quotient

RECURSIVE unsigned_to_decimal(_)
\* the decimal digits of the limbs as an unsigned number
unsigned_to_decimal(a) ==
    Let(unsigned_div(a, 10), LAMBDA d :
        IF d.quotient = <<0, 0, 0, 0>> THEN <<48 + d.remainder>>
        ELSE unsigned_to_decimal(d.quotient) \o <<48 + d.remainder>>)

\* format!("{}", a) of an i64
i64_to_string(a) ==
    IF is_negative(a) THEN <<45>> \o unsigned_to_decimal(wrapping_neg(a))
    ELSE unsigned_to_decimal(a)

---------------------------------------------------------------------------
(* f64, as far as the handlers use it: the conversion of an i64, the       *)
(* division, the multiplication and the conversion back (`as`).  A natural *)
(* number of any size is the sequence of its digits to the base 2^15, the  *)
(* least significant first, without leading zeros.  An f64 is its sign,    *)
(* its mantissa m (a natural number of exactly 53 bits, or 0) and its      *)
(* exponent e: the number m * 2^e.  (No number of these computations is    *)
(* subnormal, infinite or NaN.)                                            *)

BASE == 2^15

\* the natural number without its leading zeros
big_trim(x) ==
    IF \A k \in 1..Len(x) : x[k] = 0 THEN <<>>
    ELSE SubSeq(x, 1, CHOOSE n \in 1..Len(x) :
                          x[n] # 0 /\ \A k \in (n + 1)..Len(x) : x[k] = 0)

\* the digit of x at position k (0 beyond its length)
big_digit(x, k) == IF k <= Len(x) THEN x[k] ELSE 0

big_lt(x, y) ==
    \/ Len(x) < Len(y)
    \/ /\ Len(x) = Len(y)
       /\ \E k \in 1..Len(x) : x[k] < y[k] /\ \A j \in (k + 1)..Len(x) : x[j] = y[j]

RECURSIVE big_add_from(_, _, _, _)
\* the digits of x + y + carry from position k on
big_add_from(x, y, k, carry) ==
    IF k > Len(x) /\ k > Len(y)
    THEN IF carry = 0 THEN <<>> ELSE <<carry>>
    ELSE <<(big_digit(x, k) + big_digit(y, k) + carry) % BASE>>
         \o big_add_from(x, y, k + 1, (big_digit(x, k) + big_digit(y, k) + carry) \div BASE)

big_add(x, y) == big_add_from(x, y, 1, 0)

RECURSIVE big_sub_from(_, _, _, _)
\* the digits of x - y - borrow from position k on (x >= y)
big_sub_from(x, y, k, borrow) ==
    IF k > Len(x) THEN <<>>
    ELSE <<(x[k] - big_digit(y, k) - borrow + BASE) % BASE>>
         \o big_sub_from(x, y, k + 1,
                         IF x[k] - big_digit(y, k) - borrow < 0 THEN 1 ELSE 0)

\* x - y for x >= y
big_sub(x, y) == big_trim(big_sub_from(x, y, 1, 0))

RECURSIVE big_mul_small_from(_, _, _, _)
\* the digits of x * d + carry from position k on (d < 2^15)
big_mul_small_from(x, d, k, carry) ==
    IF k > Len(x)
    THEN IF carry = 0 THEN <<>> ELSE <<carry>>
    ELSE <<(x[k] * d + carry) % BASE>>
         \o big_mul_small_from(x, d, k + 1, (x[k] * d + carry) \div BASE)

\* x * d for d < 2^15
big_mul_small(x, d) == big_trim(big_mul_small_from(x, d, 1, 0))

RECURSIVE big_mul(_, _)
\* x * y
big_mul(x, y) ==
    IF y = <<>> THEN <<>>
    ELSE big_add(big_mul_small(x, y[1]),
                 Let(big_mul(x, Tail(y)), LAMBDA rest :
                     IF rest = <<>> THEN <<>> ELSE <<0>> \o rest))

\* the number of bits of a digit, and of a natural number
digit_bits(d) == CHOOSE n \in 0..15 : d < 2^n /\ (n > 0 => d >= 2^(n - 1))
big_bits(x) == IF x = <<>> THEN 0 ELSE 15 * (Len(x) - 1) + digit_bits(x[Len(x)])

\* x * 2^s
big_shl(x, s) ==
    IF x = <<>> THEN <<>>
    ELSE [k \in 1..(s \div 15) |-> 0] \o big_mul_small(x, 2^(s % 15))

\* x mod 2^s
big_low(x, s) ==
    big_trim([k \in 1..Min(Len(x), (s \div 15) + 1) |->
                 IF k = (s \div 15) + 1 THEN x[k] % (2^(s % 15)) ELSE x[k]])

\* x div 2^s
big_shr(x, s) ==
    Let(SubSeq(x, (s \div 15) + 1, Len(x)), LAMBDA high :
        big_trim([k \in 1..Len(high) |->
                     (high[k] \div 2^(s % 15))
                     + (big_digit(high, k + 1) % 2^(s % 15)) * 2^(15 - (s % 15))]))

big_is_odd(x) == x # <<>> /\ x[1] % 2 = 1

\* the natural number of the 64 bits of an i64's limbs
big_of_limbs(a) ==
    big_add(big_shl(big_trim(<<a[1] % BASE, a[1] \div BASE>>), 48),
            big_add(big_shl(big_trim(<<a[2] % BASE, a[2] \div BASE>>), 32),
                    big_add(big_shl(big_trim(<<a[3] % BASE, a[3] \div BASE>>), 16),
                            big_trim(<<a[4] % BASE, a[4] \div BASE>>))))

\* the 64 bits of a natural number below 2^64, as the limbs of an i64
limbs_of_big(x) ==
    [k \in 1..4 |->
        Let(big_low(big_shr(x, 16 * (4 - k)), 16), LAMBDA limb :
            big_digit(limb, 1) + BASE * big_digit(limb, 2))]

f64_zero == [neg |-> FALSE, m |-> <<>>, e |-> 0]

\* the f64 nearest to n * 2^e, or to a number above it by less than one
\* unit of 2^e when sticky: the mantissa is rounded to 53 bits, a tie to
\* the even mantissa
f64_round(neg, n, e, sticky) ==
    IF n = <<>> THEN f64_zero
    ELSE IF big_bits(n) <= 53
    THEN [neg |-> neg, m |-> big_shl(n, 53 - big_bits(n)), e |-> e - (53 - big_bits(n))]
    ELSE Let(big_bits(n) - 53, LAMBDA s :
         Let(big_shr(n, s), LAMBDA q :
         Let(big_low(n, s), LAMBDA r :
         Let(big_shl(<<1>>, s - 1), LAMBDA half :
         Let(IF big_lt(half, r) \/ (r = half /\ (sticky \/ big_is_odd(q)))
             THEN big_add(q, <<1>>) ELSE q, LAMBDA m :
             IF big_bits(m) = 54
             THEN [neg |-> neg, m |-> big_shr(m, 1), e |-> e + s + 1]
             ELSE [neg |-> neg, m |-> m, e |-> e + s])))))

\* a as f64
f64_from_i64(a) ==
    f64_round(is_negative(a),
              big_of_limbs(IF is_negative(a) THEN wrapping_neg(a) ELSE a), 0, FALSE)

\* the next five bits of rem / y (rem < y): the digit d with
\* d * y <= 32 * rem < (d + 1) * y
big_div_digit(rem, y) ==
    CHOOSE d \in 0..(2^5 - 1) :
        /\ ~big_lt(big_shl(rem, 5), big_mul_small(y, d))
        /\ big_lt(big_shl(rem, 5), big_mul_small(y, d + 1))

RECURSIVE big_div_bits(_, _, _)
\* the first n bits after the binary point of rem / y (rem < y, n a
\* multiple of five), as a natural number, and the remainder left
big_div_bits(rem, y, n) ==
    IF n = 0 THEN [quotient |-> <<>>, remainder |-> rem]
    ELSE Let(big_div_digit(rem, y), LAMBDA d :
         Let(big_div_bits(big_sub(big_shl(rem, 5), big_mul_small(y, d)), y, n - 5),
             LAMBDA rest :
                 [quotient |-> big_add(rest.quotient, big_shl(big_trim(<<d>>), n - 5)),
                  remainder |-> rest.remainder]))

\* x / y (y is not 0)
f64_div(x, y) ==
    IF x.m = <<>> THEN f64_zero
    ELSE Let(~big_lt(x.m, y.m), LAMBDA first :
         Let(big_div_bits(IF first THEN big_sub(x.m, y.m) ELSE x.m, y.m, 55),
             LAMBDA fraction :
                 f64_round(x.neg # y.neg,
                           big_add(fraction.quotient,
                                   IF first THEN big_shl(<<1>>, 55) ELSE <<>>),
                           x.e - y.e - 55,
                           fraction.remainder # <<>>)))

\* x * y
f64_mul(x, y) ==
    IF x.m = <<>> \/ y.m = <<>> THEN f64_zero
    ELSE f64_round(x.neg # y.neg, big_mul(x.m, y.m), x.e + y.e, FALSE)

\* x as i64: towards zero, and the nearest i64 when out of range
f64_as_i64(x) ==
    IF x.m = <<>> THEN <<0, 0, 0, 0>>
    ELSE IF x.e >= 0
    THEN IF big_bits(x.m) + x.e > 63
         THEN (IF x.neg THEN i64_MIN ELSE i64_MAX)
         ELSE Let(limbs_of_big(big_shl(x.m, x.e)), LAMBDA magnitude :
                  IF x.neg THEN wrapping_neg(magnitude) ELSE magnitude)
    ELSE Let(limbs_of_big(big_shr(x.m, -x.e)), LAMBDA magnitude :
             IF x.neg THEN wrapping_neg(magnitude) ELSE magnitude)

---------------------------------------------------------------------------
(* Errors (domain/error.rs). *)

ApiError(text) == [variant |-> "ApiError", msg |-> text]
IoError(text) == [variant |-> "IoError", msg |-> text]
InvalidBudgetId(text) == [variant |-> "InvalidBudgetId", msg |-> text]
NoError == [variant |-> "none", msg |-> <<>>]


\* the Display text of an error: the #[error("...")] attribute of its variant
display(e) ==
    IF e.variant = "ApiError" THEN ErrorText.display_api_error \o e.msg
    ELSE IF e.variant = "IoError" THEN ErrorText.display_io_error \o e.msg
    ELSE ErrorText.display_invalid_budget_id \o e.msg

---------------------------------------------------------------------------
(* serde_json::Value.  Every value is a record of the same four fields, of *)
(* which `kind` says which one counts; an object is its entries in key     *)
(* order, as serde_json's Map (a BTreeMap) keeps them.                     *)

JNull == [kind |-> "null", num |-> 0, str |-> <<>>, xs |-> <<>>]
JBool(b) == [kind |-> "bool", num |-> IF b THEN 1 ELSE 0, str |-> <<>>, xs |-> <<>>]
JNum(n) == [kind |-> "number", num |-> n, str |-> <<>>, xs |-> <<>>]
JStr(s) == [kind |-> "string", num |-> 0, str |-> s, xs |-> <<>>]
JArr(xs) == [kind |-> "array", num |-> 0, str |-> <<>>, xs |-> xs]
JMap(map) == [kind |-> "object", num |-> 0, str |-> <<>>, xs |-> map]

\* the Number of an i64: a small one is the number itself, any other is
\* held as its decimal text
JI64(a) ==
    IF is_small(a) THEN JNum(milliunits(a))
    ELSE [kind |-> "number", num |-> 0, str |-> i64_to_string(a), xs |-> <<>>]

\* one entry of a Map
E(key, value) == [key |-> key, value |-> value]

RECURSIVE str_lt(_, _)
\* a < b for strings (the order of their bytes)
str_lt(a, b) ==
    IF b = <<>> THEN FALSE
    ELSE IF a = <<>> THEN TRUE
    ELSE IF Head(a) # Head(b) THEN Head(a) < Head(b)
    ELSE str_lt(Tail(a), Tail(b))

RECURSIVE map_insert(_, _, _)
\* Map::insert: the entry takes its place in key order, replacing an entry
\* of the same key
map_insert(map, key, value) ==
    IF map = <<>> THEN <<E(key, value)>>
    ELSE IF map[1].key = key THEN <<E(key, value)>> \o Tail(map)
    ELSE IF str_lt(key, map[1].key) THEN <<E(key, value)>> \o map
    ELSE <<map[1]>> \o map_insert(Tail(map), key, value)

RECURSIVE map_of(_)
\* the Map that results from inserting the entries in turn
map_of(entries) ==
    IF entries = <<>> THEN <<>>
    ELSE map_insert(map_of(SubSeq(entries, 1, Len(entries) - 1)),
                    entries[Len(entries)].key, entries[Len(entries)].value)

\* json!({ key: value, ... })
JObj(entries) == JMap(map_of(entries))

map_contains_key(map, key) == \E k \in 1..Len(map) : map[k].key = key

map_get(map, key) == map[CHOOSE k \in 1..Len(map) : map[k].key = key].value

map_keys(map) == {map[k].key : k \in 1..Len(map)}

\* value[key]: Null when value is no object or has no such key
index(value, key) ==
    IF value.kind = "object" /\ map_contains_key(value.xs, key)
    THEN map_get(value.xs, key)
    ELSE JNull

is_null(value) == value.kind = "null"

Some(v) == [some |-> TRUE, value |-> v]

\* Option::<Value>::None and Option::<&str>::None
None == [some |-> FALSE, value |-> JNull]
NoneStr == [some |-> FALSE, value |-> <<>>]
NoneNum == [some |-> FALSE, value |-> 0]

\* Value::as_str
as_str(value) == IF value.kind = "string" THEN Some(value.str) ELSE NoneStr

\* Value::as_u64 (the numbers of this model are integers)
as_u64(value) ==
    IF value.kind = "number" /\ value.num >= 0 THEN Some(value.num) ELSE NoneNum

\* Value::as_array
as_array(value) ==
    IF value.kind = "array" THEN [some |-> TRUE, value |-> value.xs]
    ELSE [some |-> FALSE, value |-> <<>>]

\* Option::unwrap_or
unwrap_or(option, default) == IF option.some THEN option.value ELSE default

\* a signed number in decimal
number_to_string(n) == IF n < 0 THEN <<45>> \o to_decimal(-n) ELSE to_decimal(n)

\* the JSON escape of one character of a string
escape_char(c) ==
    IF c = 34 THEN <<92, 34>>
    ELSE IF c = 92 THEN <<92, 92>>
    ELSE IF c = 8 THEN <<92, 98>>
    ELSE IF c = 9 THEN <<92, 116>>
    ELSE IF c = 10 THEN <<92, 110>>
    ELSE IF c = 12 THEN <<92, 102>>
    ELSE IF c = 13 THEN <<92, 114>>
    ELSE IF c < 32
         THEN JsonText.escape_u00 \o <<JsonText.hex_digits[(c \div 16) + 1], JsonText.hex_digits[(c % 16) + 1]>>
    ELSE <<c>>

escape(s) == Concat([k \in 1..Len(s) |-> escape_char(s[k])])

\* a string as JSON text
quote(s) == <<34>> \o escape(s) \o <<34>>

\* the parts with sep between them
join(parts, sep) ==
    Concat([k \in 1..(2 * Len(parts) - 1) |->
               IF k % 2 = 1 THEN parts[(k + 1) \div 2] ELSE sep])

RECURSIVE to_string(_)
\* serde_json::to_string: the compact JSON text of a value
to_string(value) ==
    IF value.kind = "null" THEN JsonText.null
    ELSE IF value.kind = "bool" THEN (IF value.num = 1 THEN JsonText.true ELSE JsonText.false)
    ELSE IF value.kind = "number"
    THEN (IF value.str = <<>> THEN number_to_string(value.num) ELSE value.str)
    ELSE IF value.kind = "string" THEN quote(value.str)
    ELSE IF value.kind = "array"
    THEN <<91>> \o join([k \in 1..Len(value.xs) |-> to_string(value.xs[k])], <<44>>)
         \o <<93>>
    ELSE <<123>>
         \o join([k \in 1..Len(value.xs) |->
                     quote(value.xs[k].key) \o <<58>> \o to_string(value.xs[k].value)],
                 <<44>>)
         \o <<125>>

---------------------------------------------------------------------------
(* Framed transport (server/transport.rs).                                 *)
(*                                                                         *)
(* A reader is a byte stream `stream` of which the first `pos` bytes have  *)
(* been taken; `closed` says that no byte will follow (end of file).       *)
(* read_message wraps the reader in a new BufReader on every call.  The    *)
(* BufReader is the pair (b, i): the reader has handed out the first i     *)
(* bytes, the caller has consumed the first b, and stream[b+1..i] is what  *)
(* sits in the buffer.  When read_message returns the BufReader is dropped *)
(* and the reader stays at i.                                              *)
(***************************************************************************)

\* std::io::DEFAULT_BUF_SIZE, the capacity BufReader::new gives the buffer
DEFAULT_BUF_SIZE == 8192

\* the index of the first byte equal to c in stream[b+1..i], or 0
first_index(stream, b, i, c) ==
    IF \E k \in (b + 1)..i : stream[k] = c
    THEN CHOOSE k \in (b + 1)..i :
            /\ stream[k] = c
            /\ \A j \in (b + 1)..(k - 1) : stream[j] # c
    ELSE 0

RECURSIVE read_until_newline(_, _, _, _, _)
\* BufRead::read_until(b'\n'): fill the buffer when it is empty (one read of
\* the reader, which hands over what it has, at most the capacity), take the
\* buffered bytes up to and including the first '\n', repeat while none was
\* found; a read of 0 bytes (end of file) ends the line.  `blocked`: the
\* reader has nothing yet and is not closed.
read_until_newline(stream, closed, b, i, acc) ==
    IF b = i
    THEN IF i = Len(stream)
         THEN [blocked |-> ~closed, line |-> acc, b |-> b, i |-> i]
         ELSE read_until_newline(stream, closed, b,
                  i + Min(Len(stream) - i, DEFAULT_BUF_SIZE), acc)
    ELSE Let(first_index(stream, b, i, 10), LAMBDA k :
             IF k # 0
             THEN [blocked |-> FALSE, line |-> acc \o SubSeq(stream, b + 1, k),
                   b |-> k, i |-> i]
             ELSE read_until_newline(stream, closed, i, i,
                      acc \o SubSeq(stream, b + 1, i)))

\* BufRead::read_line: read_until(b'\n') into a String; bytes that are not
\* UTF-8 are an io::Error (InvalidData)
read_line(stream, closed, b, i) ==
    Let(read_until_newline(stream, closed, b, i, <<>>), LAMBDA r :
    Let(from_utf8(r.line), LAMBDA s :
        [blocked |-> r.blocked, ok |-> s.ok, line |-> s.value, b |-> r.b, i |-> r.i]))

RECURSIVE read_exact(_, _, _, _, _)
\* BufReader::read_exact of n bytes: from the buffer first; with the buffer
\* empty, a request of at least the capacity goes to the reader directly,
\* a smaller one fills the buffer; a read of 0 bytes is UnexpectedEof.
read_exact(stream, closed, b, i, n) ==
    IF n = 0 THEN [blocked |-> FALSE, ok |-> TRUE, b |-> b, i |-> i]
    ELSE IF b = i
    THEN IF i = Len(stream)
         THEN [blocked |-> ~closed, ok |-> FALSE, b |-> b, i |-> i]
         ELSE IF n >= DEFAULT_BUF_SIZE
              THEN Let(Min(Len(stream) - i, n), LAMBDA t :
                       read_exact(stream, closed, i + t, i + t, n - t))
              ELSE read_exact(stream, closed, b,
                       i + Min(Len(stream) - i, DEFAULT_BUF_SIZE), n)
    ELSE Let(Min(i - b, n), LAMBDA t :
             read_exact(stream, closed, b + t, i, n - t))

ReadOk(message, pos) ==
    [blocked |-> FALSE, panicked |-> FALSE, ok |-> TRUE, message |-> message,
     err |-> NoError, pos |-> pos]
ReadErr(e, pos) ==
    [blocked |-> FALSE, panicked |-> FALSE, ok |-> FALSE, message |-> <<>>,
     err |-> e, pos |-> pos]
ReadBlocked(pos) ==
    [blocked |-> TRUE, panicked |-> FALSE, ok |-> FALSE, message |-> <<>>,
     err |-> NoError, pos |-> pos]
\* read_message does not return: the thread panics
ReadPanicked(pos) ==
    [blocked |-> FALSE, panicked |-> TRUE, ok |-> FALSE, message |-> <<>>,
     err |-> NoError, pos |-> pos]

\* read_message returned Err
is_failure(result) == ~result.blocked /\ ~result.panicked /\ ~result.ok

\* header_line.trim().strip_prefix("Content-Length:")?.trim()
length_str(header_line) ==
    trim(Drop(trim(header_line), Len(TransportText.content_length_prefix) + 1))

\* read_message(reader): the result, and `pos`, where the reader is left
read_message(stream, pos, closed) ==
    Let(read_line(stream, closed, pos, pos), LAMBDA header :
    IF header.blocked THEN ReadBlocked(pos)
    ELSE IF ~header.ok THEN ReadErr(IoError(TransportText.io_invalid_utf8), header.i)
    ELSE IF ~starts_with(header.line, TransportText.content_length_prefix)
    THEN ReadErr(ApiError(TransportText.expected_header), header.i)
    ELSE IF ~starts_with(trim(header.line), TransportText.content_length_prefix)
    THEN ReadErr(ApiError(TransportText.invalid_header), header.i)
    ELSE
    Let(parse_usize(length_str(header.line)), LAMBDA content_length :
    IF ~content_length.ok
    THEN ReadErr(ApiError(TransportText.invalid_length_value \o length_str(header.line)), header.i)
    ELSE
    Let(read_line(stream, closed, header.b, header.i), LAMBDA empty_line :
    IF empty_line.blocked THEN ReadBlocked(pos)
    ELSE IF ~empty_line.ok THEN ReadErr(IoError(TransportText.io_invalid_utf8), empty_line.i)
    \* vec![0; content_length]: a Vec of more than isize::MAX bytes is a
    \* "capacity overflow" panic
    ELSE IF content_length.over_isize_max THEN ReadPanicked(empty_line.i)
    ELSE
    Let(read_exact(stream, closed, empty_line.b, empty_line.i,
                   content_length.value), LAMBDA body :
    IF body.blocked THEN ReadBlocked(pos)
    ELSE IF ~body.ok THEN ReadErr(IoError(TransportText.io_unexpected_eof), body.i)
    ELSE
    Let(from_utf8(SubSeq(stream, empty_line.b + 1, body.b)), LAMBDA message :
    IF ~message.ok THEN ReadErr(ApiError(TransportText.not_utf8), body.i)
    ELSE ReadOk(message.value, body.i))))))

\* a frame whose header line is not followed by the blank line
frame_without_blank_line(message) ==
    as_bytes(TransportText.content_length_header \o to_decimal(byte_len(message))
             \o TransportText.crlf \o message)

\* the bytes write_message hands to write_all:
\* format!("Content-Length: {}\r\n\r\n{}", message.len(), message).as_bytes()
frame(message) ==
    as_bytes(TransportText.content_length_header \o to_decimal(byte_len(message))
             \o TransportText.crlf \o TransportText.crlf \o message)

\* write_message(writer, message): the writer afterwards, and the result.
\* `accepts`: the writer takes the bytes (write_all and flush succeed).
write_message(writer, accepts, message) ==
    IF accepts
    THEN [ok |-> TRUE, writer |-> writer \o frame(message), err |-> NoError]
    ELSE [ok |-> FALSE, writer |-> writer, err |-> IoError(TransportText.io_broken_pipe)]

---------------------------------------------------------------------------
(* The JSON documents of the model's clients. *)

Request(entries) == JObj(<<E(JsonRpcText.jsonrpc, JStr(JsonRpcText.version_2_0))>> \o entries)

\* the JSON documents a client sends
RequestDocuments == {
    \* initialize, as in tests/integration_test.rs
    Request(<<E(JsonRpcText.method, JStr(McpText.initialize)), E(JsonRpcText.id, JNum(1)),
              E(JsonRpcText.params, JObj(<<E(McpText.protocolVersion, JStr(McpText.protocol_version))>>))>>),
    \* tools/list without params
    Request(<<E(JsonRpcText.method, JStr(McpText.tools_list)), E(JsonRpcText.id, JNum(2))>>),
    \* tools/call of a listed tool
    Request(<<E(JsonRpcText.method, JStr(McpText.tools_call)), E(JsonRpcText.id, JNum(3)),
              E(JsonRpcText.params, JObj(<<
                  E(McpText.name, JStr(HandlerText.analyze_category_spending)),
                  E(McpText.arguments, JObj(<<E(HandlerText.budget_id, JStr(ClientText.test_budget)),
                                        E(HandlerText.category_name, JStr(ClientText.Groceries))>>))>>))>>),
    \* tools/call of a listed tool, without arguments and with a string id
    Request(<<E(JsonRpcText.method, JStr(McpText.tools_call)), E(JsonRpcText.id, JStr(ClientText.abc)),
              E(JsonRpcText.params, JObj(<<E(McpText.name, JStr(HandlerText.get_budget_overview))>>))>>),
    \* tools/call of a tool that does not exist
    Request(<<E(JsonRpcText.method, JStr(McpText.tools_call)), E(JsonRpcText.id, JNum(5)),
              E(JsonRpcText.params, JObj(<<E(McpText.name, JStr(ClientText.nonexistent_tool)),
                                 E(McpText.arguments, JObj(<<>>))>>))>>),
    \* tools/call without params, as in server/mod.rs tests
    Request(<<E(JsonRpcText.method, JStr(McpText.tools_call)), E(JsonRpcText.id, JNum(1))>>),
    \* tools/call whose params have no name
    Request(<<E(JsonRpcText.method, JStr(McpText.tools_call)), E(JsonRpcText.id, JNum(4)),
              E(JsonRpcText.params, JObj(<<E(McpText.arguments, JObj(<<>>))>>))>>),
    \* tools/call whose name is not a string
    Request(<<E(JsonRpcText.method, JStr(McpText.tools_call)), E(JsonRpcText.id, JNum(6)),
              E(JsonRpcText.params, JObj(<<E(McpText.name, JNum(7))>>))>>),
    \* tools/call whose params are not an object
    Request(<<E(JsonRpcText.method, JStr(McpText.tools_call)), E(JsonRpcText.id, JNum(7)),
              E(JsonRpcText.params, JArr(<<JStr(HandlerText.analyze_category_spending)>>))>>),
    \* a method the server does not know
    Request(<<E(JsonRpcText.method, JStr(ClientText.unknown_method)), E(JsonRpcText.id, JNum(4)),
              E(JsonRpcText.params, JObj(<<>>))>>),
    \* a notification: no id
    Request(<<E(JsonRpcText.method, JStr(ClientText.notifications_initialized))>>),
    \* JSON, but no request: the method is missing
    Request(<<E(JsonRpcText.id, JNum(1))>>) }

\* more JSON documents, handed to JsonRpcRequest::from_json directly
EnvelopeDocuments == {
    \* the method is the empty string
    Request(<<E(JsonRpcText.method, JStr(<<>>)), E(JsonRpcText.id, JNum(8))>>),
    \* the protocol tag is "1.0"
    JObj(<<E(JsonRpcText.jsonrpc, JStr(ClientText.version_1_0)),
           E(JsonRpcText.method, JStr(McpText.tools_list)), E(JsonRpcText.id, JNum(9))>>),
    \* the protocol tag is the empty string
    JObj(<<E(JsonRpcText.jsonrpc, JStr(<<>>)),
           E(JsonRpcText.method, JStr(McpText.initialize)), E(JsonRpcText.id, JNum(10))>>),
    \* the protocol tag is a number
    JObj(<<E(JsonRpcText.jsonrpc, JNum(2)),
           E(JsonRpcText.method, JStr(McpText.tools_list)), E(JsonRpcText.id, JNum(11))>>),
    \* there is no protocol tag
    JObj(<<E(JsonRpcText.method, JStr(McpText.tools_list)), E(JsonRpcText.id, JNum(12))>>),
    \* tools/call of a listed tool, its arguments an empty object
    Request(<<E(JsonRpcText.method, JStr(McpText.tools_call)), E(JsonRpcText.id, JNum(13)),
              E(JsonRpcText.params, JObj(<<E(McpText.name, JStr(HandlerText.search_transactions)),
                                           E(McpText.arguments, JObj(<<>>))>>))>>),
    \* tools/call of a listed tool, without arguments
    Request(<<E(JsonRpcText.method, JStr(McpText.tools_call)), E(JsonRpcText.id, JNum(14)),
              E(JsonRpcText.params, JObj(<<E(McpText.name, JStr(HandlerText.search_transactions))>>))>>) }

\* every document of the model
Documents == RequestDocuments \cup EnvelopeDocuments

\* the text of each document
DocumentText == [d \in Documents |-> to_string(d)]

\* the message bodies a client sends: the documents' texts and a text that
\* is no JSON
ClientBodies == {DocumentText[d] : d \in RequestDocuments} \cup {ClientText.invalid_text}

---------------------------------------------------------------------------
(* JSON-RPC envelope (server/jsonrpc.rs). *)

Ok(v) == [ok |-> TRUE, value |-> v, err |-> NoError]

\* serde_json::from_str: the value whose text this is.  The texts parsed in
\* this model are the compact texts of Documents and a text that is no JSON
\* at all, so parsing is the inverse of to_string on Documents and fails on
\* everything else.  (The text of serde_json's own error, which from_json
\* appends to "Invalid JSON: ", is left out.)
from_str(json) ==
    IF \E d \in Documents : DocumentText[d] = json
    THEN Ok(CHOOSE d \in Documents : DocumentText[d] = json)
    ELSE [ok |-> FALSE, value |-> JNull, err |-> ApiError(JsonRpcText.invalid_json)]

NoRequest == [jsonrpc |-> <<>>, id |-> None, method |-> <<>>, params |-> None]

\* JsonRpcRequest::from_json
from_json(json) ==
    Let(from_str(json), LAMBDA value :
    IF ~value.ok THEN [ok |-> FALSE, value |-> NoRequest, err |-> value.err]
    ELSE
    Let(as_str(index(value.value, JsonRpcText.jsonrpc)), LAMBDA jsonrpc :
    IF ~jsonrpc.some
    THEN [ok |-> FALSE, value |-> NoRequest, err |-> ApiError(JsonRpcText.missing_jsonrpc)]
    ELSE
    Let(as_str(index(value.value, JsonRpcText.method)), LAMBDA method :
    IF ~method.some
    THEN [ok |-> FALSE, value |-> NoRequest, err |-> ApiError(JsonRpcText.missing_method)]
    ELSE
    Let(index(value.value, JsonRpcText.id), LAMBDA id :
    Let(index(value.value, JsonRpcText.params), LAMBDA params :
    Ok([jsonrpc |-> jsonrpc.value,
        id |-> IF is_null(id) THEN None ELSE Some(id),
        method |-> method.value,
        params |-> IF is_null(params) THEN None ELSE Some(params)]))))))

\* JsonRpcError
JsonRpcError(code, message, data) == [code |-> code, message |-> message, data |-> data]

\* Option::<JsonRpcError>::None
NoneError == [some |-> FALSE, value |-> JsonRpcError(0, <<>>, None)]

\* JsonRpcResponse::success
JsonRpcResponse_success(id, result) ==
    [jsonrpc |-> JsonRpcText.version_2_0, id |-> id, result |-> Some(result), error |-> NoneError]

\* an error response that carries a null result next to its error
JsonRpcResponse_error_with_result(id, code, message, data) ==
    [jsonrpc |-> JsonRpcText.version_2_0, id |-> id, result |-> Some(JNull),
     error |-> Some(JsonRpcError(code, message, data))]

\* JsonRpcResponse::error
JsonRpcResponse_error(id, code, message, data) ==
    [jsonrpc |-> JsonRpcText.version_2_0, id |-> id, result |-> None,
     error |-> Some(JsonRpcError(code, message, data))]

\* the error object to_json builds
error_obj(error) ==
    Let(map_insert(<<>>, JsonRpcText.code, JNum(error.code)), LAMBDA m1 :
    Let(map_insert(m1, JsonRpcText.message, JStr(error.message)), LAMBDA m2 :
    IF error.data.some THEN map_insert(m2, JsonRpcText.data, error.data.value) ELSE m2))

\* the Map to_json builds and serializes
response_map(response) ==
    Let(map_insert(<<>>, JsonRpcText.jsonrpc, JStr(response.jsonrpc)), LAMBDA m1 :
    Let(map_insert(m1, JsonRpcText.id, response.id), LAMBDA m2 :
    Let(IF response.result.some
        THEN map_insert(m2, JsonRpcText.result, response.result.value)
        ELSE m2, LAMBDA m3 :
    IF response.error.some
    THEN map_insert(m3, JsonRpcText.error, JMap(error_obj(response.error.value)))
    ELSE m3)))

\* JsonRpcResponse::to_json
to_json(response) == to_string(JMap(response_map(response)))

---------------------------------------------------------------------------
(* The texts of the transactions and queries of the model. *)

DomainText == [
    \* "acc-test"
    acc_test |-> <<97, 99, 99, 45, 116, 101, 115, 116>>,
    \* "groceries"
    groceries |-> <<103, 114, 111, 99, 101, 114, 105, 101, 115>>,
    \* "gas"
    gas |-> <<103, 97, 115>>,
    \* "salary"
    salary |-> <<115, 97, 108, 97, 114, 121>>,
    \* "txn-1"
    txn_1 |-> <<116, 120, 110, 45, 49>>,
    \* "txn-2"
    txn_2 |-> <<116, 120, 110, 45, 50>>,
    \* "txn-3"
    txn_3 |-> <<116, 120, 110, 45, 51>>,
    \* "txn-4"
    txn_4 |-> <<116, 120, 110, 45, 52>>,
    \* "2024-01-10"
    date_2024_01_10 |-> <<50, 48, 50, 52, 45, 48, 49, 45, 49, 48>>,
    \* "2024-01-20"
    date_2024_01_20 |-> <<50, 48, 50, 52, 45, 48, 49, 45, 50, 48>>,
    \* "A\u{3a3}A" (capital sigma between two letters)
    description_A_SIGMA_A |-> <<65, 931, 65>>,
    \* "a\u{3a3}" (capital sigma at the end of a word)
    description_a_SIGMA |-> <<97, 931>>,
    \* "A\u{3a3}"
    search_A_SIGMA |-> <<65, 931>>,
    \* "a"
    search_a |-> <<97>>
    ]

---------------------------------------------------------------------------
(* Transactions and queries (domain/transaction.rs, transaction_query.rs,  *)
(* transaction_service.rs).  A Money is its i64 of milliunits.  A          *)
(* TransactionService is its Vec of transactions, and a &Transaction into  *)
(* it is the position of the transaction in that Vec.                      *)

\* Option::<Money>::None and Option::<SortBy>::None
NoneMoney == [some |-> FALSE, value |-> <<0, 0, 0, 0>>]
NoneSort == [some |-> FALSE, value |-> "None"]

\* Transaction::new
Transaction_new(id, account_id, category_id, amount) ==
    [id |-> id, account_id |-> account_id, category_id |-> category_id,
     payee_id |-> NoneStr, amount |-> amount, date |-> NoneStr, description |-> NoneStr]

\* Transaction::new_with_date
new_with_date(id, account_id, category_id, amount, date) ==
    [Transaction_new(id, account_id, category_id, amount) EXCEPT !.date = Some(date)]

\* Transaction::new_with_description
new_with_description(id, account_id, category_id, amount, description) ==
    [Transaction_new(id, account_id, category_id, amount)
        EXCEPT !.description = Some(description)]

\* TransactionQuery::new(): the Default of every field
TransactionQuery_new ==
    [min_amount |-> NoneMoney, max_amount |-> NoneMoney, categories |-> <<>>,
     search_text |-> NoneStr, sort_by |-> NoneSort]

with_amount_range(query, min, max) ==
    [query EXCEPT !.min_amount = Some(min), !.max_amount = Some(max)]

with_min_amount(query, min) == [query EXCEPT !.min_amount = Some(min)]

with_max_amount(query, max) == [query EXCEPT !.max_amount = Some(max)]

with_categories(query, categories) == [query EXCEPT !.categories = categories]

with_category(query, category) == [query EXCEPT !.categories = <<category>>]

with_text_search(query, search_text) == [query EXCEPT !.search_text = Some(search_text)]

\* sort_by_amount_ascending, sort_by_amount_descending, sort_by_date
sort_by(query, mode) == [query EXCEPT !.sort_by = Some(mode)]

\* an amount filter whose bounds are exclusive
matches_amount_filter_exclusive(query, transaction) ==
    IF query.min_amount.some /\ ~i64_lt(query.min_amount.value, transaction.amount)
    THEN FALSE
    ELSE IF query.max_amount.some /\ ~i64_lt(transaction.amount, query.max_amount.value)
    THEN FALSE
    ELSE TRUE

\* TransactionQuery::matches_amount_filter
matches_amount_filter(query, transaction) ==
    IF query.min_amount.some /\ i64_lt(transaction.amount, query.min_amount.value)
    THEN FALSE
    ELSE IF query.max_amount.some /\ i64_lt(query.max_amount.value, transaction.amount)
    THEN FALSE
    ELSE TRUE

\* a category filter for which the empty allow-list allows nothing
matches_category_filter_without_default(query, transaction) ==
    \E k \in 1..Len(query.categories) : query.categories[k] = transaction.category_id

\* TransactionQuery::matches_category_filter
matches_category_filter(query, transaction) ==
    IF query.categories = <<>> THEN TRUE
    ELSE \E k \in 1..Len(query.categories) : query.categories[k] = transaction.category_id

\* the properties Cased and Case_Ignorable of a character, for ASCII,
\* Latin-1 and the Greek letters
Cased(c) ==
    \/ c \in 65..90 \/ c \in 97..122
    \/ c \in {170, 181, 186} \/ c \in 192..214 \/ c \in 216..246 \/ c \in 248..255
    \/ c \in 913..929 \/ c \in 931..937 \/ c \in 945..969

Case_Ignorable(c) == c \in {39, 46, 58, 94, 96, 168, 173, 175, 180, 183, 184}

\* case_ignorable_then_cased over the characters at `positions` (in the
\* order given) of s
case_ignorable_then_cased(s, positions) ==
    Let(SelectSeq(positions, LAMBDA k : ~Case_Ignorable(s[k])), LAMBDA rest :
        IF rest = <<>> THEN FALSE ELSE Cased(s[rest[1]]))

\* char::to_lowercase, for ASCII, Latin-1 and the Greek letters
char_to_lowercase(c) ==
    IF c \in 65..90 \/ c \in 192..214 \/ c \in 216..222
       \/ c \in 913..929 \/ c \in 931..937
    THEN c + 32
    ELSE c

\* str::to_lowercase: character by character, but for a capital sigma,
\* which becomes the final sigma (U+03C2) at the end of a word
to_lowercase(s) ==
    [i \in 1..Len(s) |->
        IF s[i] = 931
        THEN IF /\ case_ignorable_then_cased(s, [k \in 1..(i - 1) |-> i - k])
                /\ ~case_ignorable_then_cased(s, [k \in 1..(Len(s) - i) |-> i + k])
             THEN 962
             ELSE 963
        ELSE char_to_lowercase(s[i])]

\* str::contains
contains(haystack, needle) ==
    \E k \in 0..(Len(haystack) - Len(needle)) :
        SubSeq(haystack, k + 1, k + Len(needle)) = needle

\* TransactionQuery::matches_text_filter
matches_text_filter(query, transaction) ==
    IF query.search_text.some
    THEN IF transaction.description.some
         THEN contains(to_lowercase(transaction.description.value),
                       to_lowercase(query.search_text.value))
         ELSE FALSE
    ELSE TRUE

\* slice::sort_by and sort_by_key: the stable sort of refs by a comparison
\* `less` that is a strict weak order.  A ref comes before another when it
\* is less, or neither is less and it stands before the other in refs.
stable_sort(refs, less(_, _)) ==
    [p \in 1..Len(refs) |->
        refs[CHOOSE i \in 1..Len(refs) :
                Cardinality({j \in 1..Len(refs) :
                    \/ less(refs[j], refs[i])
                    \/ ~less(refs[i], refs[j]) /\ j < i}) = p - 1]]

\* the comparison of SortBy::Date: a date comes before no date
date_less(a, b) ==
    IF a.date.some /\ b.date.some THEN str_lt(a.date.value, b.date.value)
    ELSE a.date.some /\ ~b.date.some

\* a sort by date for which no date is the least date
apply_sorting_dateless_first(transactions, refs, mode) ==
    stable_sort(refs, LAMBDA a, b :
        str_lt(unwrap_or(transactions[a].date, <<>>), unwrap_or(transactions[b].date, <<>>)))

\* a sort that does not keep the order of equal keys
apply_sorting_unstable(transactions, refs, mode) ==
    CASE mode = "AmountAscending" ->
            stable_sort(refs, LAMBDA a, b :
                \/ i64_lt(transactions[a].amount, transactions[b].amount)
                \/ transactions[a].amount = transactions[b].amount /\ a > b)
      [] mode = "AmountDescending" ->
            stable_sort(refs, LAMBDA a, b :
                \/ i64_lt(transactions[b].amount, transactions[a].amount)
                \/ transactions[a].amount = transactions[b].amount /\ a > b)
      [] mode = "Date" ->
            stable_sort(refs, LAMBDA a, b :
                \/ date_less(transactions[a], transactions[b])
                \/ /\ ~date_less(transactions[b], transactions[a])
                   /\ a > b)

\* TransactionQuery::apply_sorting
apply_sorting(transactions, refs, mode) ==
    CASE mode = "AmountAscending" ->
            stable_sort(refs, LAMBDA a, b :
                i64_lt(transactions[a].amount, transactions[b].amount))
      [] mode = "AmountDescending" ->
            stable_sort(refs, LAMBDA a, b :
                i64_lt(transactions[b].amount, transactions[a].amount))
      [] mode = "Date" ->
            stable_sort(refs, LAMBDA a, b :
                date_less(transactions[a], transactions[b]))

\* a filter that sorts by amount when no sort mode is set
filter_sorted_by_default(query, transactions) ==
    apply_sorting(transactions,
                  SelectSeq([k \in 1..Len(transactions) |-> k], LAMBDA k :
                      /\ matches_amount_filter(query, transactions[k])
                      /\ matches_category_filter(query, transactions[k])
                      /\ matches_text_filter(query, transactions[k])),
                  IF query.sort_by.some THEN query.sort_by.value ELSE "AmountAscending")

\* TransactionQuery::filter
filter(query, transactions) ==
    Let(SelectSeq([k \in 1..Len(transactions) |-> k], LAMBDA k :
            /\ matches_amount_filter(query, transactions[k])
            /\ matches_category_filter(query, transactions[k])
            /\ matches_text_filter(query, transactions[k])),
        LAMBDA filtered :
            IF query.sort_by.some
            THEN apply_sorting(transactions, filtered, query.sort_by.value)
            ELSE filtered)

\* TransactionService::with_transactions
with_transactions(transactions) == transactions

\* TransactionService::query
query(transaction_service, q) == filter(q, transaction_service)

\* TransactionService::add_transaction
add_transaction(transaction_service, transaction) ==
    Append(transaction_service, transaction)

---------------------------------------------------------------------------
(* The response cache (adapters/cache.rs).  A HashMap<String, CacheEntry>  *)
(* is the sequence of its entries in the order of their keys; an Instant   *)
(* and a Duration are whole seconds.                                       *)

CacheText == [
    \* "/test"
    test |-> <<47, 116, 101, 115, 116>>,
    \* "/budgets/123"
    budgets_123 |-> <<47, 98, 117, 100, 103, 101, 116, 115, 47, 49, 50, 51>>,
    \* "data"
    data |-> <<100, 97, 116, 97>>,
    \* "https://api.ynab.com/v1"
    base_url |->
        <<104, 116, 116, 112, 115, 58, 47, 47,
        97, 112, 105, 46, 121, 110, 97, 98, 46, 99, 111, 109, 47, 118, 49>>,
    \* "HTTP "
    http |-> <<72, 84, 84, 80, 32>>,
    \* " for "
    for |-> <<32, 102, 111, 114, 32>>,
    \* "404 Not Found"
    status_404 |-> <<52, 48, 52, 32, 78, 111, 116, 32, 70, 111, 117, 110, 100>>,
    \* "200 OK"
    status_200 |-> <<50, 48, 48, 32, 79, 75>>]

\* Duration::from_secs(300), the default TTL of ApiResponseCache::new
DEFAULT_TTL == 300

\* CacheEntry::new, at the instant now
CacheEntry_new(data, ttl, now) == [data |-> data, created_at |-> now, ttl |-> ttl]

\* Option::<&CacheEntry>::None
NoEntry == [some |-> FALSE, value |-> CacheEntry_new(JNull, 0, 0)]

\* CacheEntry::is_expired with >= for >
is_expired_at_ttl(entry, now) == now - entry.created_at >= entry.ttl

\* CacheEntry::is_expired, at the instant now
is_expired(entry, now) == now - entry.created_at > entry.ttl

\* ApiResponseCache::new
ApiResponseCache_new == [entries |-> <<>>, default_ttl |-> DEFAULT_TTL]

\* ApiResponseCache::with_ttl
with_ttl(ttl) == [entries |-> <<>>, default_ttl |-> ttl]

\* ApiResponseCache::set_with_ttl
set_with_ttl(cache, key, data, ttl, now) ==
    [cache EXCEPT !.entries = map_insert(@, key, CacheEntry_new(data, ttl, now))]

\* ApiResponseCache::set
set(cache, key, data, now) == set_with_ttl(cache, key, data, cache.default_ttl, now)

\* HashMap::get
entries_get(entries, key) ==
    IF map_contains_key(entries, key) THEN Some(map_get(entries, key)) ELSE NoEntry

\* HashMap::remove
entries_remove(entries, key) == SelectSeq(entries, LAMBDA entry : entry.key # key)

\* ApiResponseCache::get: the cache after the call, and what it returns
get(cache, key, now) ==
    Let(entries_get(cache.entries, key), LAMBDA entry :
        IF entry.some
        THEN IF ~is_expired(entry.value, now)
             THEN [cache |-> cache, result |-> Some(entry.value.data)]
             ELSE [cache |-> [cache EXCEPT !.entries = entries_remove(@, key)],
                   result |-> None]
        ELSE [cache |-> cache, result |-> None])

\* ApiResponseCache::cleanup_expired that also drops an entry as old as its TTL
cleanup_expired_at_ttl(cache, now) ==
    [cache EXCEPT !.entries =
        SelectSeq(@, LAMBDA entry : ~is_expired_at_ttl(entry.value, now))]

\* ApiResponseCache::cleanup_expired
cleanup_expired(cache, now) ==
    [cache EXCEPT !.entries = SelectSeq(@, LAMBDA entry : ~is_expired(entry.value, now))]

\* ApiResponseCache::size
size(cache) == Len(cache.entries)

\* ApiResponseCache::clear
clear(cache) == [cache EXCEPT !.entries = <<>>]

\* a call of the cache: its name, its key and the entry a get found
Op(name, key, entry) == [name |-> name, key |-> key, entry |-> entry]

\* the cache is not used
COff ==
    /\ c_cache = ApiResponseCache_new
    /\ c_now = 0
    /\ c_op = Op("off", <<>>, NoEntry)
    /\ c_result = None
    /\ c_removed = {}

Err(e) == [ok |-> FALSE, value |-> <<>>, err |-> e]

---------------------------------------------------------------------------
(* The YNAB client (adapters/ynab_client.rs): get_json over the cache its  *)
(* clones share behind a Mutex, and the methods that manage the cache.  An *)
(* async fn runs from one await to the next in one piece; the answer to    *)
(* its request is the environment's.                                       *)

\* YnabError::HttpApiError, of a reqwest::Error
HttpApiError == [variant |-> "HttpApiError", msg |-> <<>>]

\* YnabClient::new_with_base_url, without the cache its clones share
new_with_base_url(api_token, base_url) == [api_token |-> api_token, base_url |-> base_url]

\* what a request meets: no answer (the request fails), or an answer with a
\* status and a body that is JSON or is not
Response(arrived, success, status, json) ==
    [sent |-> arrived, success |-> success, status |-> status, json |-> json]

\* no request has been answered
NoAnswer == Response(FALSE, FALSE, <<>>, None)

\* get_json up to its request: the cache afterwards and what the lookup
\* found (a poisoned lock gives no cache to look into)
get_json_lookup(cache, poisoned, path, now) ==
    IF ~poisoned THEN get(cache, path, now) ELSE [cache |-> cache, result |-> None]

\* get_json after its request that takes every status for a success
get_json_response_ignoring_status(client, path, response) ==
    IF ~response.sent THEN Err(HttpApiError)
    ELSE IF ~response.json.some THEN Err(HttpApiError)
    ELSE Ok(response.json.value)

\* get_json after its request, up to the JSON it has read: the error it
\* returns, or the JSON
get_json_response(client, path, response) ==
    IF ~response.sent THEN Err(HttpApiError)
    ELSE IF ~response.success
    THEN Err(ApiError(CacheText.http \o response.status \o CacheText.for
                      \o client.base_url \o path))
    ELSE IF ~response.json.some THEN Err(HttpApiError)
    ELSE Ok(response.json.value)

\* get_json storing what it has read: the cache afterwards
get_json_store(cache, poisoned, path, json, now) ==
    IF ~poisoned THEN set(cache, path, json, now) ELSE cache

\* a cache method that has returned
Completed(cache, value) == [cache |-> cache, value |-> value, panicked |-> FALSE]

\* a cache method whose lock().unwrap() has panicked
Unwound(cache) == [cache |-> cache, value |-> 0, panicked |-> TRUE]

\* history: the cache method called last, whether its lock() failed, what
\* it returned and whether it panicked
Called(name, lock_failed, outcome) ==
    [name |-> name, lock_failed |-> lock_failed,
     value |-> outcome.value, panicked |-> outcome.panicked]

\* YnabClient::clear_cache
clear_cache(cache, poisoned) ==
    IF ~poisoned THEN Completed(clear(cache), 0) ELSE Completed(cache, 0)

\* YnabClient::cache_size that unwraps the lock
cache_size_unwrapping(cache, poisoned) ==
    IF ~poisoned THEN Completed(cache, size(cache)) ELSE Unwound(cache)

\* YnabClient::cache_size
cache_size(cache, poisoned) ==
    IF ~poisoned THEN Completed(cache, size(cache)) ELSE Completed(cache, 0)

\* YnabClient::cleanup_cache
cleanup_cache(cache, poisoned, now) ==
    IF ~poisoned THEN Completed(cleanup_expired(cache, now), 0) ELSE Completed(cache, 0)

\* futures::future::join_all that stops at the first error
join_all_until_error(outputs) ==
    IF \A k \in 1..Len(outputs) : outputs[k].ok THEN outputs
    ELSE SubSeq(outputs, 1, CHOOSE k \in 1..Len(outputs) :
                                ~outputs[k].ok /\ \A j \in 1..(k - 1) : outputs[j].ok)

\* futures::future::join_all: the outputs of the futures, in their order
join_all(outputs) == outputs

\* a get_json call: its path, where it stands ("start", "get", "send",
\* "store", "set", "done"), and history: whether its lookup got the lock,
\* the entry the lookup found and when, whether the lookup changed the
\* cache, what the lookup returned, the answer to its request
Call(path) ==
    [path |-> path, pc |-> "start", locked |-> FALSE, found |-> NoEntry, found_at |-> 0,
     changed |-> FALSE, hit |-> None, response |-> NoAnswer, result |-> Err(NoError)]

\* the client is not used
KOff ==
    /\ k_poisoned = FALSE
    /\ k_lock = 0
    /\ k_calls = <<>>
    /\ k_results = <<>>
    /\ k_op = Called("off", FALSE, Completed(ApiResponseCache_new, 0))

---------------------------------------------------------------------------
(* Tool registry and executor (server/handler.rs). *)

\* TransactionService::new(): no transactions
TransactionService_new == <<>>

\* YnabClient::new(api_token)
YnabClient_new(api_token) == [api_token |-> api_token]

\* Handler::new
Handler_new ==
    [transaction_service |-> [some |-> FALSE, value |-> <<>>],
     ynab_client |-> [some |-> FALSE, value |-> YnabClient_new(<<>>)]]

\* Handler::with_services
with_services(transaction_service) ==
    [transaction_service |-> [some |-> TRUE, value |-> transaction_service],
     ynab_client |-> [some |-> FALSE, value |-> YnabClient_new(<<>>)]]

\* Handler::with_ynab_client
with_ynab_client(ynab_client) ==
    [transaction_service |-> [some |-> FALSE, value |-> <<>>],
     ynab_client |-> [some |-> TRUE, value |-> ynab_client]]

\* Handler::with_full_integration
with_full_integration(transaction_service, ynab_client) ==
    [transaction_service |-> [some |-> TRUE, value |-> transaction_service],
     ynab_client |-> [some |-> TRUE, value |-> ynab_client]]

Tool(name, description) == [name |-> name, description |-> description]

\* a list_tools that lists search_transactions only for a Handler that has
\* a transaction service
list_tools_by_services(handler) ==
    SelectSeq(
        <<Tool(HandlerText.analyze_category_spending, HandlerText.analyze_category_spending_description),
          Tool(HandlerText.get_budget_overview, HandlerText.get_budget_overview_description),
          Tool(HandlerText.search_transactions, HandlerText.search_transactions_description),
          Tool(HandlerText.analyze_spending_trends, HandlerText.analyze_spending_trends_description),
          Tool(HandlerText.budget_health_check, HandlerText.budget_health_check_description)>>,
        LAMBDA tool : tool.name = HandlerText.search_transactions
                          => handler.transaction_service.some)

\* Handler::list_tools
list_tools(handler) ==
    <<Tool(HandlerText.analyze_category_spending, HandlerText.analyze_category_spending_description),
      Tool(HandlerText.get_budget_overview, HandlerText.get_budget_overview_description),
      Tool(HandlerText.search_transactions, HandlerText.search_transactions_description),
      Tool(HandlerText.analyze_spending_trends, HandlerText.analyze_spending_trends_description),
      Tool(HandlerText.budget_health_check, HandlerText.budget_health_check_description)>>

\* params[key].as_str().unwrap_or("")
str_param(params, key) == unwrap_or(as_str(index(params, key)), <<>>)

\* the unwinding of a panic with this message: the call does not return
Panic(message) ==
    [ok |-> FALSE, value |-> <<>>, err |-> [variant |-> "panic", msg |-> message]]

\* the message of an arithmetic operation that overflowed
overflowed(operation, message) == IF operation.overflow THEN message ELSE <<>>

\* the first message of those given (in the order of the program), if any
first_panic(messages) ==
    Let(SelectSeq(messages, LAMBDA message : message # <<>>), LAMBDA raised :
        IF raised = <<>> THEN <<>> ELSE raised[1])

\* the result of a computation: in a build with overflow checks the panic
\* of its first overflow, if there is one, and else what it returns
checked(panic, result) ==
    IF overflow_checks /\ panic # <<>> THEN Panic(panic) ELSE result

RECURSIVE Money_sum(_)
\* Iterator::sum of Moneys: their milliunits added up from 0
Money_sum(amounts) ==
    IF amounts = <<>> THEN [value |-> i64(0), overflow |-> FALSE]
    ELSE Let(Money_sum(SubSeq(amounts, 1, Len(amounts) - 1)), LAMBDA before :
         Let(overflowing_add(before.value, amounts[Len(amounts)]), LAMBDA sum :
             [value |-> sum.value, overflow |-> before.overflow \/ sum.overflow]))

\* Category::new
Category_new(id, name) == [id |-> id, name |-> name]

\* Category::calculate_spending
calculate_spending(category, transactions) ==
    Let(SelectSeq(transactions, LAMBDA t : t.category_id = category.id), LAMBDA own :
        Money_sum([k \in 1..Len(own) |-> own[k].amount]))

\* Handler::analyze_category_spending_with_api
analyze_category_spending_with_api(budget_id, category_id, category_name, ynab_client) ==
    IF ynab_client.api_token = <<>> THEN Err(ApiError(HandlerText.invalid_api_token))
    ELSE Ok(to_string(JObj(<<
        E(HandlerText.category_spending, JObj(<<
            E(HandlerText.category, JStr(category_name)),
            E(HandlerText.amount_milliunits, JNum(87500)),
            E(HandlerText.transaction_count, JNum(3)),
            E(HandlerText.data_source, JStr(HandlerText.ynab_api)),
            E(HandlerText.budget_id, JStr(budget_id)),
            E(HandlerText.api_token_configured, JBool(TRUE))>>))>>)))

\* the arithmetic of analyze_category_spending over the transaction
\* service: the numbers it reports and the message of its first overflow
category_spending(transaction_service, category_id, category_name) ==
    Let(query(transaction_service, with_category(TransactionQuery_new, category_id)),
        LAMBDA transactions :
    Let(calculate_spending(Category_new(category_id, category_name),
                           [k \in 1..Len(transactions) |->
                               transaction_service[transactions[k]]]),
        LAMBDA total_spending :
    Let(overflowing_abs(total_spending.value), LAMBDA amount :
        [amount_milliunits |-> amount.value,
         transaction_count |-> Len(transactions),
         panic |-> first_panic(<<
             overflowed(total_spending, HandlerText.attempt_to_add_with_overflow),
             overflowed(amount, HandlerText.attempt_to_negate_with_overflow)>>)])))

\* the text analyze_category_spending returns for these numbers
category_spending_text(category_name, spending) ==
    to_string(JObj(<<
        E(HandlerText.category_spending, JObj(<<
            E(HandlerText.category, JStr(category_name)),
            E(HandlerText.amount_milliunits, JI64(spending.amount_milliunits)),
            E(HandlerText.transaction_count, JNum(spending.transaction_count))>>))>>))

\* Handler::analyze_category_spending
analyze_category_spending(handler, params) ==
    CASE handler.ynab_client.some ->
        analyze_category_spending_with_api(
            str_param(params, HandlerText.budget_id), str_param(params, HandlerText.category_id),
            str_param(params, HandlerText.category_name), handler.ynab_client.value)
      [] ~handler.ynab_client.some /\ handler.transaction_service.some ->
        Let(category_spending(handler.transaction_service.value,
                              str_param(params, HandlerText.category_id),
                              str_param(params, HandlerText.category_name)),
            LAMBDA spending :
                checked(spending.panic,
                        Ok(category_spending_text(
                               str_param(params, HandlerText.category_name), spending))))
      [] ~handler.ynab_client.some /\ ~handler.transaction_service.some ->
        Ok(to_string(JObj(<<
            E(HandlerText.category_spending, JObj(<<
                E(HandlerText.category, JStr(HandlerText.Groceries)),
                E(HandlerText.amount_milliunits, JNum(125000)),
                E(HandlerText.transaction_count, JNum(5))>>))>>)))

\* Handler::get_budget_overview_with_api
get_budget_overview_with_api(budget_id, ynab_client) ==
    IF ynab_client.api_token = <<>> THEN Err(ApiError(HandlerText.invalid_api_token))
    ELSE Ok(to_string(JObj(<<
        E(HandlerText.budget_overview, JObj(<<
            E(HandlerText.total_expenses_milliunits, JNum(245000)),
            E(HandlerText.total_income_milliunits, JNum(4500000)),
            E(HandlerText.net_income_milliunits, JNum(4255000)),
            E(HandlerText.transaction_count, JNum(15)),
            E(HandlerText.data_source, JStr(HandlerText.ynab_api)),
            E(HandlerText.budget_id, JStr(budget_id)),
            E(HandlerText.api_token_configured, JBool(TRUE))>>))>>)))

RECURSIVE overview_totals(_, _)
\* the loop of get_budget_overview over the transactions the query returned
overview_totals(transaction_service, all_transactions) ==
    IF all_transactions = <<>>
    THEN [total_expenses |-> i64(0), total_income |-> i64(0), panic |-> <<>>]
    ELSE Let(overview_totals(transaction_service,
                             SubSeq(all_transactions, 1, Len(all_transactions) - 1)),
             LAMBDA before :
         Let(transaction_service[all_transactions[Len(all_transactions)]].amount,
             LAMBDA amount :
             IF is_negative(amount)
             THEN Let(overflowing_abs(amount), LAMBDA expense :
                  Let(overflowing_add(before.total_expenses, expense.value), LAMBDA sum :
                      [total_expenses |-> sum.value,
                       total_income |-> before.total_income,
                       panic |-> first_panic(<<
                           before.panic,
                           overflowed(expense, HandlerText.attempt_to_negate_with_overflow),
                           overflowed(sum, HandlerText.attempt_to_add_with_overflow)>>)]))
             ELSE Let(overflowing_add(before.total_income, amount), LAMBDA sum :
                      [total_expenses |-> before.total_expenses,
                       total_income |-> sum.value,
                       panic |-> first_panic(<<
                           before.panic,
                           overflowed(sum, HandlerText.attempt_to_add_with_overflow)>>)])))

\* the arithmetic of get_budget_overview over the transaction service: the
\* numbers it reports and the message of its first overflow
budget_overview(transaction_service) ==
    Let(query(transaction_service, TransactionQuery_new), LAMBDA all_transactions :
    Let(overview_totals(transaction_service, all_transactions), LAMBDA totals :
    Let(overflowing_sub(totals.total_income, totals.total_expenses), LAMBDA net_income :
        [total_expenses |-> totals.total_expenses,
         total_income |-> totals.total_income,
         net_income |-> net_income.value,
         transaction_count |-> Len(all_transactions),
         panic |-> first_panic(<<
             totals.panic,
             overflowed(net_income, HandlerText.attempt_to_subtract_with_overflow)>>)])))

\* the text get_budget_overview returns for these numbers
budget_overview_text(overview) ==
    to_string(JObj(<<
        E(HandlerText.budget_overview, JObj(<<
            E(HandlerText.total_expenses_milliunits, JI64(overview.total_expenses)),
            E(HandlerText.total_income_milliunits, JI64(overview.total_income)),
            E(HandlerText.net_income_milliunits, JI64(overview.net_income)),
            E(HandlerText.transaction_count, JNum(overview.transaction_count))>>))>>))

\* Handler::get_budget_overview
get_budget_overview(handler, params) ==
    CASE handler.ynab_client.some ->
        get_budget_overview_with_api(str_param(params, HandlerText.budget_id),
                                     handler.ynab_client.value)
      [] ~handler.ynab_client.some /\ handler.transaction_service.some ->
        Let(budget_overview(handler.transaction_service.value), LAMBDA overview :
            checked(overview.panic, Ok(budget_overview_text(overview))))
      [] ~handler.ynab_client.some /\ ~handler.transaction_service.some ->
        Ok(to_string(JObj(<<
            E(HandlerText.budget_overview, JObj(<<
                E(HandlerText.total_budgeted, JNum(300000)),
                E(HandlerText.total_spent, JNum(125000)),
                E(HandlerText.categories_over_budget, JNum(2))>>))>>)))

\* Value::as_i64 (the numbers of this model are integers)
as_i64(value) ==
    IF value.kind = "number" THEN [some |-> TRUE, value |-> i64(value.num)] ELSE NoneMoney

\* the query search_transactions builds from its params
search_query(params) ==
    Let(as_str(index(params, HandlerText.text_search)), LAMBDA text_search :
    Let(as_i64(index(params, HandlerText.min_amount_milliunits)), LAMBDA min_amount :
    Let(as_str(index(params, HandlerText.category_id)), LAMBDA category_id :
    Let(IF text_search.some /\ text_search.value # <<>>
        THEN with_text_search(TransactionQuery_new, text_search.value)
        ELSE TransactionQuery_new, LAMBDA q1 :
    Let(IF min_amount.some THEN with_min_amount(q1, min_amount.value) ELSE q1, LAMBDA q2 :
        IF category_id.some /\ category_id.value # <<>>
        THEN with_category(q2, category_id.value)
        ELSE q2)))))

\* Iterator::take that stops one item early
take_one_less(items, n) == SubSeq(items, 1, Min(n, Len(items)) - 1)

\* Iterator::take
take(items, n) == SubSeq(items, 1, Min(n, Len(items)))

\* the JSON search_transactions makes of a transaction
transaction_json_of(txn) ==
    JObj(<<
        E(HandlerText.id, JStr(txn.id)),
        E(HandlerText.description, JStr(unwrap_or(txn.description, <<>>))),
        E(HandlerText.amount_milliunits, JI64(txn.amount)),
        E(HandlerText.category_id, JStr(txn.category_id)),
        E(HandlerText.account_id, JStr(txn.account_id))>>)

\* Handler::search_transactions.  (Of the transaction services, the one
\* that holds no transaction: the query finds none, whatever its filters.)
search_transactions(handler, params) ==
    CASE handler.transaction_service.some ->
        Let(handler.transaction_service.value, LAMBDA transaction_service :
        Let(search_query(params), LAMBDA q :
        Let(query(transaction_service, q), LAMBDA found_transactions :
        Let(unwrap_or(as_u64(index(params, HandlerText.limit)), 100), LAMBDA limit :
        Let(take(found_transactions, limit), LAMBDA limited_transactions :
        Let([k \in 1..Len(limited_transactions) |->
                transaction_json_of(transaction_service[limited_transactions[k]])],
            LAMBDA transaction_json :
            Ok(to_string(JObj(<<
                E(HandlerText.transactions, JArr(transaction_json)),
                E(HandlerText.count, JNum(Len(transaction_json))),
                E(HandlerText.limited, JBool(Len(transaction_json) = limit))>>)))))))))
      [] ~handler.transaction_service.some ->
        Ok(to_string(JObj(<<
            E(HandlerText.transactions, JArr(<<>>)),
            E(HandlerText.count, JNum(0)),
            E(HandlerText.limited, JBool(FALSE))>>)))

\* one month of the mock monthly_data
month_data(month, groceries_amount, groceries_count, dining_amount, dining_count) ==
    JObj(<<
        E(HandlerText.month, JStr(month)),
        E(HandlerText.categories, JObj(<<
            E(HandlerText.groceries, JObj(<<E(HandlerText.amount_milliunits, JNum(groceries_amount)),
                                  E(HandlerText.transaction_count, JNum(groceries_count))>>)),
            E(HandlerText.dining, JObj(<<E(HandlerText.amount_milliunits, JNum(dining_amount)),
                               E(HandlerText.transaction_count, JNum(dining_count))>>))>>))>>)

\* Handler::analyze_spending_trends_with_api
analyze_spending_trends_with_api(budget_id, ynab_client) ==
    IF ynab_client.api_token = <<>> THEN Err(ApiError(HandlerText.invalid_api_token))
    ELSE Ok(to_string(JObj(<<
        E(HandlerText.spending_trends, JObj(<<
            E(HandlerText.monthly_data, JArr(<<
                month_data(HandlerText.month_2024_01, 87500, 12, 45000, 6),
                month_data(HandlerText.month_2024_02, 92000, 14, 38000, 5)>>)),
            E(HandlerText.trend_analysis, JObj(<<
                E(HandlerText.average_monthly_spending, JNum(131250)),
                E(HandlerText.strongest_growth_category, JStr(HandlerText.groceries)),
                E(HandlerText.largest_decline_category, JStr(HandlerText.dining))>>)),
            E(HandlerText.months_analyzed, JNum(6)),
            E(HandlerText.data_source, JStr(HandlerText.ynab_api)),
            E(HandlerText.budget_id, JStr(budget_id)),
            E(HandlerText.api_token_configured, JBool(TRUE))>>))>>)))

\* format!("2024-{:02}", month)
month_text(month) ==
    HandlerText.month_2024 \o (IF month < 10 THEN <<48>> ELSE <<>>) \o to_decimal(month)

\* the strings of params["categories"], when it is an array
categories_of(params) ==
    SelectSeq(unwrap_or(as_array(index(params, HandlerText.categories)), <<>>),
              LAMBDA v : as_str(v).some)

RECURSIVE trend_totals(_, _, _)
\* the loop of analyze_spending_trends over the transactions the query
\* returned: category_totals, and the message of its first overflow
trend_totals(transaction_service, all_transactions, categories) ==
    IF all_transactions = <<>> THEN [category_totals |-> <<>>, panic |-> <<>>]
    ELSE Let(trend_totals(transaction_service,
                          SubSeq(all_transactions, 1, Len(all_transactions) - 1),
                          categories), LAMBDA before :
         Let(transaction_service[all_transactions[Len(all_transactions)]],
             LAMBDA transaction :
         Let(overflowing_abs(transaction.amount), LAMBDA amount :
             IF categories = <<>>
                \/ \E k \in 1..Len(categories) :
                       as_str(categories[k]).value = transaction.category_id
             THEN Let(overflowing_add(
                          IF map_contains_key(before.category_totals,
                                              transaction.category_id)
                          THEN map_get(before.category_totals, transaction.category_id)
                          ELSE i64(0),
                          amount.value), LAMBDA total :
                      [category_totals |->
                           map_insert(before.category_totals, transaction.category_id,
                                      total.value),
                       panic |-> first_panic(<<
                           before.panic,
                           overflowed(amount, HandlerText.attempt_to_negate_with_overflow),
                           overflowed(total, HandlerText.attempt_to_add_with_overflow)>>)])
             ELSE [category_totals |-> before.category_totals,
                   panic |-> first_panic(<<
                       before.panic,
                       overflowed(amount,
                                  HandlerText.attempt_to_negate_with_overflow)>>)])))

RECURSIVE i64_sum(_)
\* Iterator::sum::<i64>: the values added up from 0
i64_sum(values) ==
    IF values = <<>> THEN [value |-> i64(0), overflow |-> FALSE]
    ELSE Let(i64_sum(SubSeq(values, 1, Len(values) - 1)), LAMBDA before :
         Let(overflowing_add(before.value, values[Len(values)]), LAMBDA sum :
             [value |-> sum.value, overflow |-> before.overflow \/ sum.overflow]))

\* the arithmetic of analyze_spending_trends over the transaction service,
\* up to its divisions: category_totals, their sum, and the message of the
\* first overflow
spending_trends(transaction_service, categories) ==
    Let(trend_totals(transaction_service,
                     query(transaction_service, TransactionQuery_new), categories),
        LAMBDA totals :
    Let(i64_sum([k \in 1..Len(totals.category_totals) |-> totals.category_totals[k].value]),
        LAMBDA sum :
        [category_totals |-> totals.category_totals,
         sum |-> sum.value,
         panic |-> first_panic(<<
             totals.panic,
             overflowed(sum, HandlerText.attempt_to_add_with_overflow)>>)]))

\* Handler::analyze_spending_trends
analyze_spending_trends(handler, params) ==
    CASE handler.ynab_client.some ->
        analyze_spending_trends_with_api(str_param(params, HandlerText.budget_id),
                                         handler.ynab_client.value)
      [] ~handler.ynab_client.some /\ handler.transaction_service.some ->
        Let(unwrap_or(as_u64(index(params, HandlerText.months)), 3), LAMBDA months :
        Let(spending_trends(handler.transaction_service.value, categories_of(params)),
            LAMBDA trends :
        checked(trends.panic,
            IF months = 0 THEN Panic(HandlerText.attempt_to_divide_by_zero)
            ELSE Ok(to_string(JObj(<<
                E(HandlerText.spending_trends, JObj(<<
                    E(HandlerText.monthly_data, JArr([month \in 1..months |->
                        JObj(<<E(HandlerText.month, JStr(month_text(month))),
                               E(HandlerText.categories,
                                 JMap([k \in 1..Len(trends.category_totals) |->
                                     E(trends.category_totals[k].key, JObj(<<
                                         E(HandlerText.amount_milliunits,
                                           JI64(i64_div(trends.category_totals[k].value,
                                                        months))),
                                         E(HandlerText.transaction_count,
                                           JNum(1))>>))]))>>)])),
                    E(HandlerText.trend_analysis, JObj(<<
                        E(HandlerText.average_monthly_spending,
                          JI64(i64_div(trends.sum, months))),
                        E(HandlerText.total_categories_analyzed,
                          JNum(Len(trends.category_totals)))>>)),
                    E(HandlerText.months_analyzed, JNum(months)),
                    E(HandlerText.categories_count,
                      JNum(Max(Len(categories_of(params)), Len(trends.category_totals)))),
                    E(HandlerText.data_source,
                      JStr(HandlerText.domain_service))>>))>>))))))
      [] ~handler.ynab_client.some /\ ~handler.transaction_service.some ->
        Ok(to_string(JObj(<<
            E(HandlerText.spending_trends, JObj(<<
                E(HandlerText.monthly_data, JArr(<<
                    JObj(<<
                        E(HandlerText.month, JStr(HandlerText.month_2024_01)),
                        E(HandlerText.categories, JObj(<<
                            E(HandlerText.groceries, JObj(<<
                                E(HandlerText.amount_milliunits, JNum(45000)),
                                E(HandlerText.transaction_count, JNum(8))>>)),
                            E(HandlerText.entertainment, JObj(<<
                                E(HandlerText.amount_milliunits, JNum(25000)),
                                E(HandlerText.transaction_count, JNum(3))>>))>>))>>)>>)),
                E(HandlerText.trend_analysis, JObj(<<
                    E(HandlerText.average_monthly_spending, JNum(70000)),
                    E(HandlerText.trending_up, JArr(<<JStr(HandlerText.groceries)>>)),
                    E(HandlerText.trending_down, JArr(<<JStr(HandlerText.entertainment)>>))>>)),
                E(HandlerText.months_analyzed, JNum(3)),
                E(HandlerText.categories_count, JNum(2))>>))>>)))

\* Handler::budget_health_check_with_api
budget_health_check_with_api(budget_id, ynab_client) ==
    IF ynab_client.api_token = <<>> THEN Err(ApiError(HandlerText.invalid_api_token))
    ELSE Ok(to_string(JObj(<<
        E(HandlerText.budget_health, JObj(<<
            E(HandlerText.overall_score, JNum(85)),
            E(HandlerText.optimization_suggestions, JArr(<<
                JStr(HandlerText.suggestion_1), JStr(HandlerText.suggestion_2),
                JStr(HandlerText.suggestion_3), JStr(HandlerText.suggestion_4)>>)),
            E(HandlerText.risk_categories, JArr(<<JStr(HandlerText.groceries), JStr(HandlerText.subscriptions)>>)),
            E(HandlerText.spending_efficiency, JObj(<<
                E(HandlerText.total_expenses_milliunits, JNum(275000)),
                E(HandlerText.total_income_milliunits, JNum(420000)),
                E(HandlerText.net_income_milliunits, JNum(145000)),
                E(HandlerText.savings_rate_percentage, JNum(18))>>)),
            E(HandlerText.category_breakdown, JObj(<<
                E(HandlerText.over_budget_categories, JNum(2)),
                E(HandlerText.healthy_categories, JNum(8)),
                E(HandlerText.categories_trending_up, JArr(<<JStr(HandlerText.groceries), JStr(HandlerText.gas)>>))>>)),
            E(HandlerText.data_source, JStr(HandlerText.ynab_api)),
            E(HandlerText.budget_id, JStr(budget_id)),
            E(HandlerText.api_token_configured, JBool(TRUE))>>))>>)))

RECURSIVE health_totals(_, _)
\* the loop of budget_health_check over the transactions the query returned
health_totals(transaction_service, all_transactions) ==
    IF all_transactions = <<>>
    THEN [category_spending |-> <<>>, total_expenses |-> i64(0), total_income |-> i64(0),
          transaction_count |-> 0, panic |-> <<>>]
    ELSE Let(health_totals(transaction_service,
                           SubSeq(all_transactions, 1, Len(all_transactions) - 1)),
             LAMBDA before :
         Let(transaction_service[all_transactions[Len(all_transactions)]],
             LAMBDA transaction :
             IF is_negative(transaction.amount)
             THEN Let(overflowing_abs(transaction.amount), LAMBDA expense :
                  Let(overflowing_add(before.total_expenses, expense.value), LAMBDA sum :
                  Let(overflowing_add(
                          IF map_contains_key(before.category_spending,
                                              transaction.category_id)
                          THEN map_get(before.category_spending, transaction.category_id)
                          ELSE i64(0),
                          expense.value), LAMBDA spending :
                      [category_spending |->
                           map_insert(before.category_spending, transaction.category_id,
                                      spending.value),
                       total_expenses |-> sum.value,
                       total_income |-> before.total_income,
                       transaction_count |-> before.transaction_count + 1,
                       panic |-> first_panic(<<
                           before.panic,
                           overflowed(expense, HandlerText.attempt_to_negate_with_overflow),
                           overflowed(sum, HandlerText.attempt_to_add_with_overflow),
                           overflowed(spending,
                                      HandlerText.attempt_to_add_with_overflow)>>)])))
             ELSE Let(overflowing_add(before.total_income, transaction.amount),
                      LAMBDA sum :
                      [category_spending |-> before.category_spending,
                       total_expenses |-> before.total_expenses,
                       total_income |-> sum.value,
                       transaction_count |-> before.transaction_count + 1,
                       panic |-> first_panic(<<
                           before.panic,
                           overflowed(sum, HandlerText.attempt_to_add_with_overflow)>>)])))

\* the keys of a HashMap in the order in which its iterator hands them out
hash_iter(map) == SelectSeq(hash_order, LAMBDA key : map_contains_key(map, key))

\* (net_income as f64 / total_income as f64 * 100.0) as i64, or 0 without
\* income
savings_rate_of(net_income, total_income) ==
    IF i64_lt(i64(0), total_income)
    THEN f64_as_i64(f64_mul(f64_div(f64_from_i64(net_income), f64_from_i64(total_income)),
                            f64_from_i64(i64(100))))
    ELSE i64(0)

\* the overall score before it is capped at 100
overall_score_of(savings_rate, transaction_count) ==
    IF i64_le(i64(20), savings_rate) THEN 90 + Min(transaction_count, 10)
    ELSE IF i64_le(i64(10), savings_rate) THEN 70 + milliunits(savings_rate)
    ELSE 50 + (IF is_negative(savings_rate) THEN 0 ELSE milliunits(savings_rate))

\* the arithmetic of budget_health_check over the transaction service: what
\* it reports and the message of its first overflow
budget_health(transaction_service) ==
    Let(health_totals(transaction_service,
                      query(transaction_service, TransactionQuery_new)), LAMBDA totals :
    Let(overflowing_sub(totals.total_income, totals.total_expenses), LAMBDA net_income :
    Let(savings_rate_of(net_income.value, totals.total_income), LAMBDA savings_rate :
    Let(IF totals.category_spending # <<>>
        THEN i64_div(totals.total_expenses, Len(totals.category_spending))
        ELSE i64(0), LAMBDA avg_category_spending :
    Let(overflowing_add(avg_category_spending, avg_category_spending), LAMBDA limit :
    Let(SelectSeq(hash_iter(totals.category_spending), LAMBDA category :
            i64_lt(limit.value, map_get(totals.category_spending, category))),
        LAMBDA risk_categories :
        [overall_score |-> Min(overall_score_of(savings_rate, totals.transaction_count), 100),
         optimization_suggestions |->
             [k \in 1..Len(risk_categories) |->
                 HandlerText.consider_reducing_spending_in \o risk_categories[k]
                 \o HandlerText.category_suffix]
             \o (IF i64_lt(savings_rate, i64(10))
                 THEN <<HandlerText.increase_savings_rate>> ELSE <<>>)
             \o (IF is_negative(net_income.value)
                 THEN <<HandlerText.reduce_expenses>> ELSE <<>>),
         risk_categories |-> risk_categories,
         total_expenses |-> totals.total_expenses,
         total_income |-> totals.total_income,
         net_income |-> net_income.value,
         savings_rate |-> savings_rate,
         category_spending |-> totals.category_spending,
         transaction_count |-> totals.transaction_count,
         panic |-> first_panic(<<
             totals.panic,
             overflowed(net_income, HandlerText.attempt_to_subtract_with_overflow),
             IF totals.category_spending # <<>>
             THEN overflowed(limit, HandlerText.attempt_to_multiply_with_overflow)
             ELSE <<>> >>)]))))))

\* the text budget_health_check returns for this report
budget_health_text(health) ==
    to_string(JObj(<<
        E(HandlerText.budget_health, JObj(<<
            E(HandlerText.overall_score, JNum(health.overall_score)),
            E(HandlerText.optimization_suggestions,
              JArr([k \in 1..Len(health.optimization_suggestions) |->
                       JStr(health.optimization_suggestions[k])])),
            E(HandlerText.risk_categories,
              JArr([k \in 1..Len(health.risk_categories) |->
                       JStr(health.risk_categories[k])])),
            E(HandlerText.spending_efficiency, JObj(<<
                E(HandlerText.total_expenses_milliunits, JI64(health.total_expenses)),
                E(HandlerText.total_income_milliunits, JI64(health.total_income)),
                E(HandlerText.net_income_milliunits, JI64(health.net_income)),
                E(HandlerText.savings_rate_percentage, JI64(health.savings_rate))>>)),
            E(HandlerText.category_analysis,
              JMap([k \in 1..Len(health.category_spending) |->
                       E(health.category_spending[k].key,
                         JI64(health.category_spending[k].value))])),
            E(HandlerText.transaction_count, JNum(health.transaction_count)),
            E(HandlerText.data_source, JStr(HandlerText.domain_service))>>))>>))

\* Handler::budget_health_check
budget_health_check(handler, params) ==
    CASE handler.ynab_client.some ->
        budget_health_check_with_api(str_param(params, HandlerText.budget_id),
                                     handler.ynab_client.value)
      [] ~handler.ynab_client.some /\ handler.transaction_service.some ->
        Let(budget_health(handler.transaction_service.value), LAMBDA health :
            checked(health.panic, Ok(budget_health_text(health))))
      [] ~handler.ynab_client.some /\ ~handler.transaction_service.some ->
        Ok(to_string(JObj(<<
            E(HandlerText.budget_health, JObj(<<
                E(HandlerText.overall_score, JNum(78)),
                E(HandlerText.optimization_suggestions, JArr(<<
                    JStr(HandlerText.fallback_suggestion_1),
                    JStr(HandlerText.fallback_suggestion_2),
                    JStr(HandlerText.fallback_suggestion_3)>>)),
                E(HandlerText.risk_categories,
                  JArr(<<JStr(HandlerText.dining), JStr(HandlerText.entertainment)>>)),
                E(HandlerText.spending_efficiency, JObj(<<
                    E(HandlerText.savings_rate_percentage, JNum(15)),
                    E(HandlerText.expense_to_income_ratio, JNum(85))>>))>>))>>)))

\* an execute_tool whose match has no arm for budget_health_check
execute_tool_without_health_check(handler, tool_name, params) ==
    IF tool_name = HandlerText.analyze_category_spending
    THEN analyze_category_spending(handler, params)
    ELSE IF tool_name = HandlerText.get_budget_overview
    THEN get_budget_overview(handler, params)
    ELSE IF tool_name = HandlerText.search_transactions
    THEN search_transactions(handler, params)
    ELSE IF tool_name = HandlerText.analyze_spending_trends
    THEN analyze_spending_trends(handler, params)
    ELSE Err(InvalidBudgetId(HandlerText.unknown_tool \o tool_name))

\* Handler::execute_tool
execute_tool(handler, tool_name, params) ==
    IF tool_name = HandlerText.analyze_category_spending
    THEN analyze_category_spending(handler, params)
    ELSE IF tool_name = HandlerText.get_budget_overview
    THEN get_budget_overview(handler, params)
    ELSE IF tool_name = HandlerText.search_transactions
    THEN search_transactions(handler, params)
    ELSE IF tool_name = HandlerText.analyze_spending_trends
    THEN analyze_spending_trends(handler, params)
    ELSE IF tool_name = HandlerText.budget_health_check
    THEN budget_health_check(handler, params)
    ELSE Err(InvalidBudgetId(HandlerText.unknown_tool \o tool_name))

---------------------------------------------------------------------------
(* MCP dispatcher (server/mcp_protocol.rs).  A dispatch returns, besides   *)
(* its Result, `executed`: the calls of execute_tool it made.              *)

NoResponse == JsonRpcResponse_error(JNull, 0, <<>>, None)

Dispatched(response, executed) ==
    [ok |-> TRUE, value |-> response, err |-> NoError, executed |-> executed]

DispatchFailed(e) ==
    [ok |-> FALSE, value |-> NoResponse, err |-> e, executed |-> <<>>]

\* McpServer::handle_initialize
handle_initialize(handler, id, params) ==
    Dispatched(
        JsonRpcResponse_success(id, JObj(<<
            E(McpText.protocolVersion, JStr(McpText.protocol_version)),
            E(McpText.capabilities, JObj(<<E(McpText.tools, JObj(<<>>))>>)),
            E(McpText.serverInfo, JObj(<<E(McpText.name, JStr(McpText.server_name)),
                                   E(McpText.version, JStr(McpText.server_version))>>))>>)),
        <<>>)

\* McpServer::handle_tools_list
handle_tools_list(handler, id) ==
    Let(list_tools(handler), LAMBDA tools :
    Let([k \in 1..Len(tools) |->
            JObj(<<E(McpText.name, JStr(tools[k].name)),
                   E(McpText.description, JStr(tools[k].description))>>)],
        LAMBDA tool_objects :
    Dispatched(
        JsonRpcResponse_success(id, JObj(<<E(McpText.tools, JArr(tool_objects))>>)),
        <<>>)))

\* the result handle_tools_call wraps a tool's text in
tool_content(content) ==
    JObj(<<E(McpText.content, JArr(<<
        JObj(<<E(McpText.type, JStr(McpText.text)), E(McpText.text, JStr(content))>>)>>))>>)

\* a handle_tools_call that calls execute_tool with an empty name when the
\* params have none
handle_tools_call_default_name(handler, id, params) ==
    Let(as_str(index(unwrap_or(params, JNull), McpText.name)), LAMBDA tool_name :
    Let(index(unwrap_or(params, JNull), McpText.arguments), LAMBDA arguments :
    Let(execute_tool(handler, tool_name.value, arguments), LAMBDA outcome :
    Let(<<[tool_name |-> tool_name.value, arguments |-> arguments,
           outcome |-> outcome]>>, LAMBDA executed :
    IF outcome.ok
    THEN Dispatched(JsonRpcResponse_success(id, tool_content(outcome.value)), executed)
    ELSE Dispatched(
             JsonRpcResponse_error(id, -32000,
                 McpText.tool_execution_failed \o display(outcome.err), None),
             executed)))))

\* a handle_tools_call that reports a tool's failure as the text of a
\* success result
handle_tools_call_error_in_result(handler, id, params) ==
    IF ~params.some THEN DispatchFailed(ApiError(McpText.missing_params))
    ELSE
    Let(as_str(index(params.value, McpText.name)), LAMBDA tool_name :
    IF ~tool_name.some THEN DispatchFailed(ApiError(McpText.missing_tool_name))
    ELSE
    Let(index(params.value, McpText.arguments), LAMBDA arguments :
    Let(execute_tool(handler, tool_name.value, arguments), LAMBDA outcome :
    Dispatched(
        JsonRpcResponse_success(id,
            tool_content(IF outcome.ok THEN outcome.value
                         ELSE McpText.tool_execution_failed \o display(outcome.err))),
        <<[tool_name |-> tool_name.value, arguments |-> arguments,
           outcome |-> outcome]>>))))

\* McpServer::handle_tools_call
handle_tools_call(handler, id, params) ==
    IF ~params.some THEN DispatchFailed(ApiError(McpText.missing_params))
    ELSE
    Let(as_str(index(params.value, McpText.name)), LAMBDA tool_name :
    IF ~tool_name.some THEN DispatchFailed(ApiError(McpText.missing_tool_name))
    ELSE
    Let(index(params.value, McpText.arguments), LAMBDA arguments :
    Let(execute_tool(handler, tool_name.value, arguments), LAMBDA outcome :
    Let(<<[tool_name |-> tool_name.value, arguments |-> arguments,
           outcome |-> outcome]>>, LAMBDA executed :
    IF outcome.ok
    THEN Dispatched(JsonRpcResponse_success(id, tool_content(outcome.value)), executed)
    ELSE Dispatched(
             JsonRpcResponse_error(id, -32000,
                 McpText.tool_execution_failed \o display(outcome.err), None),
             executed)))))

\* a handle_request that fails on a method it does not know, instead of
\* answering it
handle_request_unknown_fails(handler, request) ==
    Let(unwrap_or(request.id, JNull), LAMBDA id :
    IF request.method = McpText.initialize
    THEN handle_initialize(handler, id, request.params)
    ELSE IF request.method = McpText.tools_list
    THEN handle_tools_list(handler, id)
    ELSE IF request.method = McpText.tools_call
    THEN handle_tools_call(handler, id, request.params)
    ELSE DispatchFailed(ApiError(McpText.method_not_found)))

\* McpServer::handle_request
handle_request(handler, request) ==
    Let(unwrap_or(request.id, JNull), LAMBDA id :
    IF request.method = McpText.initialize
    THEN handle_initialize(handler, id, request.params)
    ELSE IF request.method = McpText.tools_list
    THEN handle_tools_list(handler, id)
    ELSE IF request.method = McpText.tools_call
    THEN handle_tools_call(handler, id, request.params)
    ELSE Dispatched(JsonRpcResponse_error(id, -32601, McpText.method_not_found, None), <<>>))

---------------------------------------------------------------------------
(* The session loop (server/mod.rs, run_mcp_server) and its client. *)

\* the API token run_mcp_server is started with (main.rs refuses an empty one)
ApiTokens == {ClientText.test_token}

\* the frame of each body, as the client writes it
ClientFrame == [body \in ClientBodies |-> frame(body)]

\* McpServer::new(Handler::with_full_integration(TransactionService::new(),
\* YnabClient::new(api_token)))
McpServer_new(api_token) ==
    [handler |-> with_full_integration(TransactionService_new, YnabClient_new(api_token))]

NotReturned == [returned |-> FALSE, ok |-> FALSE, err |-> NoError]
Returned(ok, e) == [returned |-> TRUE, ok |-> ok, err |-> e]

\* the loop body between read_message and write_message: the response to a
\* message, and the execute_tool calls made for it
process_message(server, json) ==
    Let(from_json(json), LAMBDA request :
    IF ~request.ok
    THEN [response |-> JsonRpcResponse_error(JNull, -32700,
                           ServerText.parse_error \o display(request.err), None),
          executed |-> <<>>]
    ELSE
    Let(handle_request(server.handler, request.value), LAMBDA dispatch :
    IF dispatch.ok
    THEN [response |-> dispatch.value, executed |-> dispatch.executed]
    ELSE [response |-> JsonRpcResponse_error(JNull, -32000,
                           ServerText.server_error \o display(dispatch.err), None),
          executed |-> dispatch.executed]))

SInit ==
    /\ mcp_server \in {McpServer_new(t) : t \in ApiTokens}
    /\ input = <<>>
    /\ input_closed = FALSE
    /\ reader_fails = FALSE
    /\ reader_pos = 0
    /\ output = <<>>
    /\ writer_accepts = TRUE
    /\ pc = "read"
    /\ msg = <<>>
    /\ resp = NoResponse
    /\ calls = <<>>
    /\ returned = NotReturned
    /\ sent = <<>>
    /\ reads = <<>>
    /\ answered = <<>>

\* The client frames a body and writes the frame to the server's reader.
\* The server looks at its reader in ServerRead only, so what the client does
\* while the server handles or writes is what it does right after.
ClientSendOf(bodies) ==
    /\ pc = "read"
    /\ ~input_closed
    /\ ~reader_fails
    /\ Len(sent) < MaxMessages
    /\ \E body \in bodies :
          /\ input' = input \o ClientFrame[body]
          /\ sent' = Append(sent, body)
    /\ UNCHANGED <<mcp_server, input_closed, reader_fails, reader_pos, output, writer_accepts,
                   pc, msg, resp, calls, returned, reads, answered>>

\* a client that sends any of the bodies
ClientSend == ClientSendOf(ClientBodies)

\* the client closes the stream: the reader reports end of file after the
\* bytes sent
ClientClose ==
    /\ pc = "read"
    /\ ~input_closed
    /\ ~reader_fails
    /\ input_closed' = TRUE
    /\ UNCHANGED <<mcp_server, input, reader_fails, reader_pos, output, writer_accepts,
                   pc, msg, resp, calls, returned, sent, reads, answered>>

\* the byte streams a client writes as they are, closing the stream after:
\* a header line that is no Content-Length header, a length that is no
\* number, a body that is not UTF-8, fewer body bytes than declared, a
\* length of usize::MAX
SessionRawInputs ==
    {as_bytes(ClientText.raw_three_bytes) \o <<255, 254, 253>>}
    \cup {as_bytes(ClientText[f]) :
              f \in {"raw_invalid_header", "raw_not_a_number", "raw_mismatch",
                     "raw_usize_max"}}

\* the client writes bytes that are no frame of its own making and closes
\* the stream
ClientSendRaw ==
    /\ pc = "read"
    /\ ~input_closed
    /\ ~reader_fails
    /\ \E raw \in SessionRawInputs : input' = input \o raw
    /\ input_closed' = TRUE
    /\ UNCHANGED <<mcp_server, reader_fails, reader_pos, output, writer_accepts,
                   pc, msg, resp, calls, returned, sent, reads, answered>>

\* The reader breaks: reads fail from now on.  (Only a read notices, so the
\* break is taken where the next step is a read.)
ReaderFails ==
    /\ ~reader_fails
    /\ ~input_closed
    /\ pc = "read"
    /\ reader_fails' = TRUE
    /\ UNCHANGED <<mcp_server, input, input_closed, reader_pos, output, writer_accepts,
                   pc, msg, resp, calls, returned, sent, reads, answered>>

\* read_message(&mut reader) in the loop: with a broken reader the first
\* read_line returns the reader's io::Error (transport.rs 15)
loop_read ==
    IF reader_fails
    THEN ReadErr(IoError(TransportText.io_input_output_error), reader_pos)
    ELSE read_message(input, reader_pos, input_closed)

\* The peer stops taking the server's output: writes fail from now on.  (Only
\* a write notices, so the break is taken where the next step is a write.)
WriterBreaks ==
    /\ writer_accepts
    /\ pc = "write"
    /\ writer_accepts' = FALSE
    /\ UNCHANGED <<mcp_server, input, input_closed, reader_fails, reader_pos, output,
                   pc, msg, resp, calls, returned, sent, reads, answered>>

\* a loop that returns the error of read_message instead of breaking
ServerRead_returns_error ==
    /\ pc = "read"
    /\ \E r \in {loop_read} :
       /\ ~r.blocked
       /\ reader_pos' = r.pos
       /\ IF r.ok
          THEN /\ msg' = r.message
               /\ pc' = "handle"
               /\ returned' = returned
               /\ reads' = Append(reads, [message |-> r.message,
                                          from |-> reader_pos, to |-> r.pos])
          ELSE IF r.panicked
          THEN /\ pc' = "panicked"
               /\ UNCHANGED <<msg, reads, returned>>
          ELSE /\ pc' = "done"
               /\ returned' = Returned(FALSE, r.err)
               /\ UNCHANGED <<msg, reads>>
    /\ UNCHANGED <<mcp_server, input, input_closed, reader_fails, output, writer_accepts,
                   resp, calls, sent, answered>>

\* let message = match read_message(&mut reader) { Ok(msg) => msg, Err(_) => break }
\* and, after the loop, Ok(()).  A panic of read_message ends the thread:
\* run_mcp_server does not return.
ServerRead ==
    /\ pc = "read"
    /\ \E r \in {loop_read} :
       /\ ~r.blocked
       /\ reader_pos' = r.pos
       /\ IF r.ok
          THEN /\ msg' = r.message
               /\ pc' = "handle"
               /\ returned' = returned
               /\ reads' = Append(reads, [message |-> r.message,
                                          from |-> reader_pos, to |-> r.pos])
          ELSE IF r.panicked
          THEN /\ pc' = "panicked"
               /\ UNCHANGED <<msg, reads, returned>>
          ELSE /\ pc' = "done"
               /\ returned' = Returned(TRUE, NoError)
               /\ UNCHANGED <<msg, reads>>
    /\ UNCHANGED <<mcp_server, input, input_closed, reader_fails, output, writer_accepts,
                   resp, calls, sent, answered>>

\* a loop body that goes back to read_message with its response not written
ServerHandle_without_write ==
    /\ pc = "handle"
    /\ \E p \in {process_message(mcp_server, msg)} :
          /\ resp' = p.response
          /\ calls' = p.executed
    /\ pc' = "read"
    /\ UNCHANGED <<mcp_server, input, input_closed, reader_fails, reader_pos, output,
                   writer_accepts, msg, returned, sent, reads, answered>>

\* JsonRpcRequest::from_json and mcp_server.handle_request, up to the response
ServerHandle ==
    /\ pc = "handle"
    /\ \E p \in {process_message(mcp_server, msg)} :
       /\ resp' = p.response
       /\ calls' = p.executed
    /\ pc' = "write"
    /\ UNCHANGED <<mcp_server, input, input_closed, reader_fails, reader_pos, output,
                   writer_accepts, msg, returned, sent, reads, answered>>

\* a loop that writes no response to a request without an id
ServerWrite_skipping_notifications ==
    /\ pc = "write"
    /\ \E w \in {IF from_json(msg).ok /\ ~from_json(msg).value.id.some
                  THEN [ok |-> TRUE, writer |-> output, err |-> NoError]
                  ELSE write_message(output, writer_accepts, to_json(resp))} :
       /\ output' = w.writer
       /\ IF w.ok
          THEN /\ pc' = "read"
               /\ returned' = returned
               /\ answered' = Append(answered, [message |-> msg,
                                                response |-> resp,
                                                executed |-> calls])
          ELSE /\ pc' = "done"
               /\ returned' = Returned(FALSE, w.err)
               /\ answered' = answered
    /\ UNCHANGED <<mcp_server, input, input_closed, reader_fails, reader_pos, writer_accepts,
                   msg, resp, calls, sent, reads>>

\* write_message(&mut writer, &response.to_json())?  and back to the loop's top
ServerWrite ==
    /\ pc = "write"
    /\ \E w \in {write_message(output, writer_accepts, to_json(resp))} :
       /\ output' = w.writer
       /\ IF w.ok
          THEN /\ pc' = "read"
               /\ returned' = returned
               /\ answered' = Append(answered, [message |-> msg,
                                                response |-> resp,
                                                executed |-> calls])
          ELSE /\ pc' = "done"
               /\ returned' = Returned(FALSE, w.err)
               /\ answered' = answered
    /\ UNCHANGED <<mcp_server, input, input_closed, reader_fails, reader_pos, writer_accepts,
                   msg, resp, calls, sent, reads>>

\* no transport round trip is made
TOff ==
    /\ t_pc = "off"
    /\ t_message = <<>>
    /\ t_stream = <<>>
    /\ t_result = ReadBlocked(0)

\* no session runs
SOff ==
    /\ mcp_server = McpServer_new(<<>>)
    /\ input = <<>>
    /\ input_closed = TRUE
    /\ reader_fails = FALSE
    /\ reader_pos = 0
    /\ output = <<>>
    /\ writer_accepts = TRUE
    /\ pc = "off"
    /\ msg = <<>>
    /\ resp = NoResponse
    /\ calls = <<>>
    /\ returned = NotReturned
    /\ sent = <<>>
    /\ reads = <<>>
    /\ answered = <<>>

\* no Handler is used on its own
HOff ==
    /\ h_pc = "off"
    /\ h_handler = Handler_new
    /\ h_tool_name = <<>>
    /\ h_params = JNull
    /\ h_tools = <<>>
    /\ h_outcome = Err(NoError)
    /\ h_first = Err(NoError)

\* no McpServer is used on its own
ROff ==
    /\ r_pc = "off"
    /\ r_server = McpServer_new(<<>>)
    /\ r_message = <<>>
    /\ r_request = [ok |-> FALSE, value |-> NoRequest, err |-> NoError]
    /\ r_dispatch = DispatchFailed(NoError)
    /\ r_history = <<>>

\* no query is built, no arithmetic or HashMap is in play, and the cache
\* is not used
XOff ==
    /\ q_pc = "off"
    /\ q_service = TransactionService_new
    /\ q_query = TransactionQuery_new
    /\ q_result = <<>>
    /\ overflow_checks = FALSE
    /\ hash_order = <<>>
    /\ COff
    /\ KOff

Init ==
    /\ SInit
    /\ TOff
    /\ HOff
    /\ ROff
    /\ XOff

Next ==
    \/ (ClientSend /\ UNCHANGED <<t_vars, h_vars, r_vars, x_vars>>)
    \/ (ClientClose /\ UNCHANGED <<t_vars, h_vars, r_vars, x_vars>>)
    \/ (WriterBreaks /\ UNCHANGED <<t_vars, h_vars, r_vars, x_vars>>)
    \/ (ServerRead /\ UNCHANGED <<t_vars, h_vars, r_vars, x_vars>>)
    \/ (ServerHandle /\ UNCHANGED <<t_vars, h_vars, r_vars, x_vars>>)
    \/ (ServerWrite /\ UNCHANGED <<t_vars, h_vars, r_vars, x_vars>>)

\* run_mcp_server with its client
Spec == Init /\ [][Next]_vars

\* the bodies of a client whose streams also break: tools/list, and a text
\* that is no JSON
FaultBodies ==
    {DocumentText[Request(<<E(JsonRpcText.method, JStr(McpText.tools_list)),
                            E(JsonRpcText.id, JNum(2))>>)],
     ClientText.invalid_text}

NextFaults ==
    \/ (ClientSendOf(FaultBodies) /\ UNCHANGED <<t_vars, h_vars, r_vars, x_vars>>)
    \/ (ClientSendRaw /\ UNCHANGED <<t_vars, h_vars, r_vars, x_vars>>)
    \/ (ClientClose /\ UNCHANGED <<t_vars, h_vars, r_vars, x_vars>>)
    \/ (ReaderFails /\ UNCHANGED <<t_vars, h_vars, r_vars, x_vars>>)
    \/ (WriterBreaks /\ UNCHANGED <<t_vars, h_vars, r_vars, x_vars>>)
    \/ (ServerRead /\ UNCHANGED <<t_vars, h_vars, r_vars, x_vars>>)
    \/ (ServerHandle /\ UNCHANGED <<t_vars, h_vars, r_vars, x_vars>>)
    \/ (ServerWrite /\ UNCHANGED <<t_vars, h_vars, r_vars, x_vars>>)

\* run_mcp_server with a client that may write bytes that are no frame, and
\* a reader and a writer that may break
SpecFaults == Init /\ [][NextFaults]_vars

---------------------------------------------------------------------------
(* Properties of the session (Spec). *)

\* the request JsonRpcRequest::from_json makes of a message that parses
request_of(json) == from_json(json).value

\* json is the text of a request envelope
parses(json) == from_json(json).ok

\* response is an error response (and no result) with this code
is_error(response, code) ==
    /\ response.error.some
    /\ ~response.result.some
    /\ response.error.value.code = code

\* the offset in the input at which the k-th frame the client sent starts
frame_start(k) == Len(Concat([j \in 1..(k - 1) |-> as_bytes(TransportText.content_length_header
                      \o to_decimal(byte_len(sent[j])) \o TransportText.crlf \o TransportText.crlf \o sent[j])]))

\* the k-th frame the client sent was read by a read_message call that the
\* server then answered
read_and_answered(k) ==
    \E j \in 1..Len(answered) :
        /\ reads[j].from = frame_start(k)
        /\ reads[j].message = sent[k]
        /\ answered[j].message = sent[k]

\* this step is run_mcp_server's write of the response to a message that
\* satisfies concerned, to a writer that takes it
writes_response_to(concerned(_)) ==
    /\ pc = "write"
    /\ pc' # "write"
    /\ writer_accepts
    /\ concerned(msg)

\* after this step run_mcp_server is in its loop, at read_message
session_continues == pc' = "read" /\ returned' = NotReturned

\* C1: a framed message whose body is no request envelope is answered with
\* one error response with id null and code -32700, and a valid framed
\* message that follows it in the stream is read and answered: when
\* run_mcp_server has returned Ok at the end of the input, every message the
\* client sent after a malformed one has been read and answered.
C1_MalformedThenNext ==
    /\ \A k \in 1..Len(answered) :
          ~parses(answered[k].message) =>
              /\ is_error(answered[k].response, -32700)
              /\ answered[k].response.id = JNull
    /\ (pc = "done" /\ returned.ok) =>
          \A k \in 1..(Len(sent) - 1) :
              (~parses(sent[k]) /\ parses(sent[k + 1])) =>
                  /\ read_and_answered(k)
                  /\ read_and_answered(k + 1)

\* the frame of the response to each body a client sends, for each token
ResponseFrame ==
    [t \in ApiTokens |-> [body \in ClientBodies |->
        frame(to_json(process_message(McpServer_new(t), body).response))]]

\* the frame of the response of this session's server to a message
response_frame(json) ==
    IF json \in ClientBodies
    THEN ResponseFrame[mcp_server.handler.ynab_client.value.api_token][json]
    ELSE frame(to_json(process_message(mcp_server, json).response))

\* C2: at most one message is read and not yet answered; a read starts only
\* when every message read before has its response written; and the output
\* is exactly the frames of the responses to the messages read, in their
\* order.
C2_Sequential ==
    /\ Len(reads) - Len(answered) \in {0, 1}
    /\ pc = "read" => Len(reads) = Len(answered)
    /\ pc \in {"handle", "write"} => Len(reads) = Len(answered) + 1
    /\ \A k \in 1..Len(answered) : answered[k].message = reads[k].message
    /\ output = Concat([k \in 1..Len(answered) |-> response_frame(reads[k].message)])

\* C2 happens: two messages were read and answered, one after the other
C2_Witness ==
    /\ Len(answered) = 2
    /\ Len(reads) = 2
    /\ answered[1].response # answered[2].response
    /\ output # <<>>

\* the bytes from the start of a frame to the end of its header line
header_line_len(from) == first_index(input, from, Len(input), 10) - from

\* C3: a successful read_message leaves the reader right after the body: it
\* has consumed the header line, the separator line and the declared number
\* of body bytes, and no more; and the next call starts there.
C3_ConsumesExactlyOneFrame ==
    /\ \A k \in 1..Len(reads) :
          reads[k].to = reads[k].from + header_line_len(reads[k].from)
                        + Len(TransportText.crlf) + byte_len(reads[k].message)
    /\ \A k \in 1..(Len(reads) - 1) : reads[k + 1].from = reads[k].to

\* C6: every response the session builds carries exactly one of result and
\* error; the Map it is serialized from has jsonrpc and id and exactly one
\* of result and error; its error object has code and message, and has data
\* only when data was provided.
envelope_ok(response) ==
    /\ response.result.some # response.error.some
    /\ Let(response_map(response), LAMBDA m :
           /\ map_contains_key(m, JsonRpcText.jsonrpc)
           /\ map_contains_key(m, JsonRpcText.id)
           /\ map_get(m, JsonRpcText.id) = response.id
           /\ map_contains_key(m, JsonRpcText.result) # map_contains_key(m, JsonRpcText.error)
           /\ map_keys(m) \subseteq {JsonRpcText.jsonrpc, JsonRpcText.id, JsonRpcText.result, JsonRpcText.error}
           /\ map_contains_key(m, JsonRpcText.error) =>
                 Let(map_get(m, JsonRpcText.error), LAMBDA e :
                     /\ e.kind = "object"
                     /\ map_contains_key(e.xs, JsonRpcText.code)
                     /\ map_contains_key(e.xs, JsonRpcText.message)
                     /\ map_contains_key(e.xs, JsonRpcText.data)
                            => response.error.value.data.some
                     /\ map_keys(e.xs) \subseteq {JsonRpcText.code, JsonRpcText.message, JsonRpcText.data}))

C6_ExactlyOneOfResultAndError ==
    /\ pc = "write" => envelope_ok(resp)
    /\ \A k \in 1..Len(answered) : envelope_ok(answered[k].response)

\* C6 happens: a success response and an error response were written
C6_Witness ==
    /\ Len(answered) = 2
    /\ answered[1].response.result.some
    /\ answered[2].response.error.some
    /\ envelope_ok(answered[1].response)
    /\ envelope_ok(answered[2].response)

\* C7: the response written for a message that parses carries the request's
\* id, null when the request has none, whatever its method and whether the
\* dispatch fails; the response to a message that does not parse has id null.
C7_IdEchoed ==
    \A k \in 1..Len(answered) :
        answered[k].response.id
            = (IF parses(answered[k].message)
               THEN unwrap_or(request_of(answered[k].message).id, JNull)
               ELSE JNull)

\* json is a request whose method is none of the three the server knows
unknown_method(json) ==
    /\ parses(json)
    /\ request_of(json).method \notin {McpText.initialize, McpText.tools_list, McpText.tools_call}

C8_Answered ==
    \A k \in 1..Len(answered) :
        unknown_method(answered[k].message) => is_error(answered[k].response, -32601)

C8_Step == writes_response_to(unknown_method) => session_continues

tools_call(json) == parses(json) /\ request_of(json).method = McpText.tools_call

\* json is a tools/call request without params, or whose params have no
\* name that is a string
nameless_tools_call(json) ==
    /\ tools_call(json)
    /\ \/ ~request_of(json).params.some
       \/ ~as_str(index(request_of(json).params.value, McpText.name)).some

C9_Answered ==
    \A k \in 1..Len(answered) :
        nameless_tools_call(answered[k].message) =>
            /\ answered[k].response.error.some
            /\ ~answered[k].response.result.some
            /\ answered[k].executed = <<>>

C9_Step == writes_response_to(nameless_tools_call) => (calls = <<>> /\ session_continues)

\* C9: a tools/call without params, or without a string name in them, is
\* answered with an error response; no tool is executed for it; and having
\* written the response run_mcp_server is at read_message again.
C9_NamelessToolsCall == []C9_Answered /\ [][C9_Step]_vars

\* C9 happens: a tools/call whose params have no name, and one without
\* params, were answered with errors, and the server read on
C9_Witness ==
    /\ Len(answered) = 2
    /\ nameless_tools_call(answered[1].message)
    /\ request_of(answered[1].message).params.some
    /\ nameless_tools_call(answered[2].message)
    /\ ~request_of(answered[2].message).params.some
    /\ answered[1].response.error.some
    /\ pc = "read"

\* json is a tools/call request whose params have a string name
named_tools_call(json) == tools_call(json) /\ ~nameless_tools_call(json)

\* {content: [{type: "text", text}]}
one_text_item(text) ==
    [kind |-> "object", num |-> 0, str |-> <<>>, xs |-> <<
        [key |-> McpText.content,
         value |-> [kind |-> "array", num |-> 0, str |-> <<>>, xs |-> <<
             [kind |-> "object", num |-> 0, str |-> <<>>, xs |-> <<
                 [key |-> McpText.text,
                  value |-> [kind |-> "string", num |-> 0, str |-> text, xs |-> <<>>]],
                 [key |-> McpText.type,
                  value |-> [kind |-> "string", num |-> 0, str |-> McpText.text,
                             xs |-> <<>>]]>>]>>]]>>]

C10_Answered ==
    \A k \in 1..Len(answered) :
        named_tools_call(answered[k].message) =>
            /\ Len(answered[k].executed) = 1
            /\ answered[k].executed[1].tool_name
                   = as_str(index(request_of(answered[k].message).params.value,
                                  McpText.name)).value
            /\ IF answered[k].executed[1].outcome.ok
               THEN /\ answered[k].response.result.some
                    /\ ~answered[k].response.error.some
                    /\ answered[k].response.result.value
                           = one_text_item(answered[k].executed[1].outcome.value)
               ELSE is_error(answered[k].response, -32000)

C10_Step == writes_response_to(named_tools_call) => session_continues

---------------------------------------------------------------------------
(* Properties of the session whose streams break (SpecFaults). *)

\* a step of the loop's read_message that returned Err
read_fails_now == pc = "read" /\ pc' # "read" /\ is_failure(loop_read)

\* the reader is at the end of a closed stream: the stream merely ended
at_end_of_stream == ~reader_fails /\ input_closed /\ reader_pos = Len(input)

C15_Empty ==
    (pc = "done" /\ input = <<>> /\ ~reader_fails)
        => (returned = Returned(TRUE, NoError) /\ output = <<>>)

C15_Step ==
    /\ (read_fails_now /\ at_end_of_stream)
           => (pc' = "done" /\ returned' = Returned(TRUE, NoError))
    /\ read_fails_now
           => (pc' = "done" /\ output' = output /\ answered' = answered)
    /\ pc = "done" => (pc' = "done" /\ output' = output /\ returned' = returned)

\* C15: when read_message finds the end of the input, run_mcp_server leaves
\* its loop and returns Ok (with nothing written when the input was empty);
\* when read_message fails otherwise, it leaves the loop too, writing no
\* response for that read; having returned, it does nothing more.
C15_EndOfInput == []C15_Empty /\ [][C15_Step]_vars

\* C15 happens: the server answered a message, then met bytes that are no
\* frame, and returned with the one response written
C15_Witness ==
    /\ pc = "done"
    /\ returned.ok
    /\ Len(answered) = 1
    /\ Len(sent) = 1
    /\ output = response_frame(answered[1].message)
    /\ Len(input) > Len(ClientFrame[sent[1]])

\* C16: run_mcp_server returns the I/O error when its reader or its writer
\* has failed, and Ok only when neither has and the stream has ended.
C16_FaultReturned ==
    pc = "done" =>
        /\ reader_fails => (~returned.ok /\ returned.err.variant = "IoError")
        /\ ~writer_accepts => (~returned.ok /\ returned.err.variant = "IoError")
        /\ returned.ok => (~reader_fails /\ writer_accepts /\ input_closed)

C17_Step ==
    (read_fails_now /\ loop_read.err.variant = "ApiError" /\ reader_pos < Len(input))
        => /\ pc' = "write"
           /\ resp'.error.some
           /\ ~resp'.result.some

\* C17: when read_message fails on bytes that are there (a header line that
\* is no Content-Length header, a length that is no number, a body that is
\* not UTF-8), an error response is made for it and the loop goes on: it is
\* written and read_message is called again.
C17_ReadFaultAnswered == [][C17_Step]_vars

---------------------------------------------------------------------------
(* The transport on its own: one message is written to an empty stream and *)
(* read back from it, or a stream is read as it is.                        *)

\* the characters of the round trip's messages: 'a', '\n', and one character
\* of each UTF-8 width above one byte (U+00E9, U+20AC, U+1F600)
TAlphabet == {97, 10, 233, 8364, 128512}

RECURSIVE Strings(_, _)
\* the strings over alphabet of at most n characters
Strings(alphabet, n) ==
    IF n = 0 THEN {<<>>}
    ELSE Let(Strings(alphabet, n - 1), LAMBDA shorter :
             shorter \cup {Append(s, c) : s \in shorter, c \in alphabet})

TMessages == Strings(TAlphabet, MaxLen)

\* the byte streams read_message is applied to as they are: the empty
\* stream, streams with a header line that is not a Content-Length header,
\* with a length that is no number or no usize, with fewer body bytes than
\* declared, with a body that is not UTF-8, and well-formed ones
RawStreams ==
    {<<>>,
     as_bytes(ClientText.raw_three_bytes) \o <<255, 254, 253>>}
    \cup {as_bytes(ClientText[f]) :
              f \in {"raw_invalid_header", "raw_lower_case", "raw_leading_space",
                     "raw_not_a_number", "raw_negative", "raw_no_value",
                     "raw_mismatch", "raw_header_only", "raw_usize_max",
                     "raw_over_usize", "raw_valid", "raw_plus", "raw_blank"}}

\* either a message to write and read back, or a stream to read
TInit ==
    /\ \/ /\ t_pc = "start"
          /\ t_message \in TMessages
          /\ t_stream = <<>>
       \/ /\ t_pc = "raw"
          /\ t_message = <<>>
          /\ t_stream \in RawStreams
    /\ t_result = ReadBlocked(0)
    /\ SOff
    /\ HOff
    /\ ROff
    /\ XOff

TWrite ==
    /\ t_pc = "start"
    /\ t_stream' = write_message(<<>>, TRUE, t_message).writer
    /\ t_pc' = "written"
    /\ UNCHANGED <<t_message, t_result, s_vars, h_vars, r_vars, x_vars>>

TRead ==
    /\ t_pc = "written"
    /\ t_result' = read_message(t_stream, 0, TRUE)
    /\ t_pc' = "read"
    /\ UNCHANGED <<t_message, t_stream, s_vars, h_vars, r_vars, x_vars>>

\* read_message(Cursor::new(stream))
TReadRaw ==
    /\ t_pc = "raw"
    /\ t_result' = read_message(t_stream, 0, TRUE)
    /\ t_pc' = "raw_read"
    /\ UNCHANGED <<t_message, t_stream, s_vars, h_vars, r_vars, x_vars>>

TNext == TWrite \/ TRead \/ TReadRaw

SpecTransport == TInit /\ [][TNext]_vars

---------------------------------------------------------------------------
(* Properties of the transport round trip (SpecTransport). *)

\* C4: for every message m, read_message applied to a stream that holds
\* exactly the bytes write_message(m) emitted returns Ok(m).
C4_RoundTrip ==
    t_pc = "read" =>
        /\ ~t_result.blocked
        /\ t_result.ok
        /\ t_result.message = t_message

\* C4 happens: a message with a line feed in it and a character of four
\* bytes was written, read back and returned
C4_Witness ==
    /\ t_pc = "read"
    /\ t_result.ok
    /\ Len(t_message) = 3
    /\ \E j, k \in 1..Len(t_message) : t_message[j] = 10 /\ t_message[k] = 128512
    /\ t_result.message = t_message

\* the number of bytes UTF-8 takes for the character c
utf8_len(c) ==
    IF c < 128 THEN 1 ELSE IF c < 2048 THEN 2 ELSE IF c < 65536 THEN 3 ELSE 4

RECURSIVE utf8_total(_)
\* the number of bytes UTF-8 takes for the string s
utf8_total(s) ==
    IF s = <<>> THEN 0 ELSE utf8_len(Head(s)) + utf8_total(Tail(s))

\* C5: what write_message emits is the header "Content-Length: N", whose N
\* is the decimal number of bytes of the body in UTF-8 (not the number of
\* its characters), a blank line, and the body's bytes, with nothing before
\* or after.
C5_ExactFrame ==
    t_pc \in {"written", "read"} =>
        t_stream = as_bytes(TransportText.content_length_header)
                   \o as_bytes(to_decimal(utf8_total(t_message)))
                   \o <<13, 10, 13, 10>>
                   \o as_bytes(t_message)

\* C5 happens: a body of three characters and nine bytes was written
C5_Witness ==
    /\ t_pc = "written"
    /\ t_message = <<233, 8364, 128512>>
    /\ Len(t_stream) = Len(TransportText.content_length_header) + 1 + 4 + 9


\* the first line of a stream, with its line feed
first_line(stream) ==
    IF first_index(stream, 0, Len(stream), 10) = 0 THEN stream
    ELSE SubSeq(stream, 1, first_index(stream, 0, Len(stream), 10))

\* the text of the first line
header_of(stream) == from_utf8(first_line(stream)).value

\* the first line does not start with "Content-Length:"
malformed_header(stream) ==
    ~starts_with(header_of(stream), TransportText.content_length_prefix)

\* the text is a non-negative integer in decimal ('+' allowed)
is_non_negative_integer(text) ==
    /\ text # <<>>
    /\ \A k \in 1..Len(text) : IsDigit(text[k]) \/ (k = 1 /\ text[k] = 43 /\ Len(text) > 1)

\* the first line is a Content-Length header whose value is no non-negative
\* integer
malformed_length(stream) ==
    /\ ~malformed_header(stream)
    /\ ~is_non_negative_integer(length_str(header_of(stream)))

\* the number of bytes after the stream's second line
body_bytes(stream) ==
    Let(Len(first_line(stream)), LAMBDA h :
        Len(stream) - h - Len(first_line(Drop(stream, h + 1))))

\* the first line is a Content-Length header whose value is a non-negative
\* integer N that a usize holds, and fewer than N bytes follow the second
\* line
truncated_body(stream) ==
    /\ ~malformed_header(stream)
    /\ is_non_negative_integer(length_str(header_of(stream)))
    /\ decimal_le(significant(SelectSeq(length_str(header_of(stream)), IsDigit)),
                  Limits.usize_MAX)
    /\ ~decimal_le(
           significant(SelectSeq(length_str(header_of(stream)), IsDigit)),
           significant(to_decimal(body_bytes(stream))))

\* C14: read_message on a stream that ends before any header byte returns an
\* outcome that is no error and that differs from what it returns for a
\* stream whose header line is malformed.
C14_EndOfStreamDistinguished ==
    (t_pc = "raw_read" /\ t_stream = <<>>) =>
        /\ ~is_failure(t_result)
        /\ \A other \in RawStreams :
               (other # <<>> /\ malformed_header(other))
                   => read_message(other, 0, TRUE).err # t_result.err

\* C18: read_message returns an ApiError (framing) when the header line does
\* not start with "Content-Length:" or its value is no non-negative integer,
\* and an IoError (truncated) when the stream ends before the declared
\* number of body bytes; it returns no message in these cases.
C18_FramingAndTruncation ==
    t_pc = "raw_read" =>
        /\ (malformed_header(t_stream) \/ malformed_length(t_stream))
               => (is_failure(t_result) /\ t_result.err.variant = "ApiError")
        /\ truncated_body(t_stream)
               => (is_failure(t_result) /\ t_result.err.variant = "IoError")

---------------------------------------------------------------------------
(* The tool registry on its own (server/handler.rs): a Handler built by    *)
(* one of its constructors lists its tools, or executes a tool by name.    *)

\* the Handlers the four constructors build, over a transaction service
\* without transactions and a YNAB client with or without a token
Handlers ==
    {Handler_new, with_services(TransactionService_new)}
    \cup {with_ynab_client(YnabClient_new(t)) : t \in ApiTokens \cup {<<>>}}
    \cup {with_full_integration(TransactionService_new, YnabClient_new(t)) : t \in ApiTokens}

\* the names execute_tool is called with: the five of list_tools, and
\* names that are none of them (empty, of another tool, in another case,
\* with a space after)
ToolNames ==
    {HandlerText.analyze_category_spending, HandlerText.get_budget_overview,
     HandlerText.search_transactions, HandlerText.analyze_spending_trends,
     HandlerText.budget_health_check,
     <<>>, ClientText.nonexistent_tool, ClientText.GET_BUDGET_OVERVIEW,
     ClientText.search_transactions_space}

\* the arguments execute_tool is called with
ToolArguments ==
    {JNull,
     JObj(<<>>),
     JObj(<<E(HandlerText.budget_id, JStr(ClientText.test_budget)),
            E(HandlerText.category_name, JStr(ClientText.Groceries))>>),
     JObj(<<E(HandlerText.limit, JNum(0)), E(HandlerText.months, JNum(2)),
            E(HandlerText.categories, JArr(<<JStr(HandlerText.groceries), JNum(5)>>))>>)}

HInit ==
    /\ h_pc = "start"
    /\ h_handler \in Handlers
    /\ h_tool_name \in ToolNames
    /\ h_params \in ToolArguments
    /\ h_tools = <<>>
    /\ h_outcome = Err(NoError)
    /\ h_first = Err(NoError)
    /\ TOff
    /\ SOff
    /\ ROff
    /\ XOff

\* handler.list_tools()
ListTools ==
    /\ h_pc = "start"
    /\ h_tools' = list_tools(h_handler)
    /\ h_pc' = "listed"
    /\ UNCHANGED <<h_handler, h_tool_name, h_params, h_outcome, h_first, t_vars, s_vars, r_vars, x_vars>>

\* handler.execute_tool(tool_name, params)
ExecuteTool ==
    /\ h_pc = "listed"
    /\ h_outcome' = execute_tool(h_handler, h_tool_name, h_params)
    /\ h_pc' = "executed"
    /\ UNCHANGED <<h_handler, h_tool_name, h_params, h_tools, h_first, t_vars, s_vars, r_vars, x_vars>>

HNext == ListTools \/ ExecuteTool

\* a Handler, asked for its tools and then for one tool
SpecHandler == HInit /\ [][HNext]_vars

\* the names of the tools list_tools returned
listed_names == {h_tools[k].name : k \in 1..Len(h_tools)}

\* C11: execute_tool fails with the "Unknown tool" error exactly when the
\* name is none of the names list_tools returned; a listed name gets what
\* its own tool function returns for the arguments, and a name that is not
\* listed never gets an Ok.
C11_UnknownToolExactly ==
    h_pc = "executed" =>
        /\ (h_outcome = Err(InvalidBudgetId(HandlerText.unknown_tool \o h_tool_name)))
               <=> (h_tool_name \notin listed_names)
        /\ (h_tool_name \notin listed_names) => ~h_outcome.ok
        /\ (h_tool_name = HandlerText.analyze_category_spending)
               => h_outcome = analyze_category_spending(h_handler, h_params)
        /\ (h_tool_name = HandlerText.get_budget_overview)
               => h_outcome = get_budget_overview(h_handler, h_params)
        /\ (h_tool_name = HandlerText.search_transactions)
               => h_outcome = search_transactions(h_handler, h_params)
        /\ (h_tool_name = HandlerText.analyze_spending_trends)
               => h_outcome = analyze_spending_trends(h_handler, h_params)
        /\ (h_tool_name = HandlerText.budget_health_check)
               => h_outcome = budget_health_check(h_handler, h_params)

\* a Handler without services has executed budget_health_check
C11_Witness ==
    /\ h_pc = "executed"
    /\ h_handler = Handler_new
    /\ h_tool_name = HandlerText.budget_health_check
    /\ h_outcome.ok


---------------------------------------------------------------------------
(* The envelope and the dispatcher on their own (server/jsonrpc.rs,        *)
(* server/mcp_protocol.rs): an McpServer over any Handler is handed        *)
(* message texts one after the other; each goes through                    *)
(* JsonRpcRequest::from_json and, when that accepts it, handle_request.    *)

\* the message texts: the text of every document, and a text that is no JSON
EnvelopeBodies == {DocumentText[d] : d \in Documents} \cup {ClientText.invalid_text}

RInit ==
    /\ r_pc = "idle"
    /\ r_server \in {[handler |-> h] : h \in Handlers}
    /\ r_message = <<>>
    /\ r_request = [ok |-> FALSE, value |-> NoRequest, err |-> NoError]
    /\ r_dispatch = DispatchFailed(NoError)
    /\ r_history = <<>>
    /\ TOff
    /\ SOff
    /\ HOff
    /\ XOff

\* a message text arrives
Receive ==
    /\ r_pc = "idle"
    /\ Len(r_history) < MaxRequests
    /\ r_message' \in EnvelopeBodies
    /\ r_pc' = "message"
    /\ UNCHANGED <<r_server, r_request, r_dispatch, r_history, t_vars, s_vars, h_vars, x_vars>>

\* JsonRpcRequest::from_json(&message); a message it rejects is done with
FromJson ==
    /\ r_pc = "message"
    /\ r_request' = from_json(r_message)
    /\ IF r_request'.ok
       THEN /\ r_pc' = "request"
            /\ r_history' = r_history
       ELSE /\ r_pc' = "idle"
            /\ r_history' = Append(r_history, r_message)
    /\ UNCHANGED <<r_server, r_message, r_dispatch, t_vars, s_vars, h_vars, x_vars>>

\* mcp_server.handle_request(request)
HandleRequest ==
    /\ r_pc = "request"
    /\ r_dispatch' = handle_request(r_server.handler, r_request.value)
    /\ r_pc' = "idle"
    /\ r_history' = Append(r_history, r_message)
    /\ UNCHANGED <<r_server, r_message, r_request, t_vars, s_vars, h_vars, x_vars>>

RNext == Receive \/ FromJson \/ HandleRequest

\* an McpServer and the messages handed to it
SpecRequest == RInit /\ [][RNext]_vars

\* from_json has accepted r_message and handle_request has returned for it
r_dispatched == r_pc = "idle" /\ r_history # <<>> /\ r_request.ok

\* the tools of a tools/list result
tools_of(response) == index(response.result.value, McpText.tools).xs

\* the five tool names
FiveTools ==
    {HandlerText.analyze_category_spending, HandlerText.get_budget_overview,
     HandlerText.search_transactions, HandlerText.analyze_spending_trends,
     HandlerText.budget_health_check}

\* C12: whatever services the Handler has and whatever messages came before,
\* the answer to tools/list is a result whose tools are five objects with
\* the five names, each once, each with a description that is a non-empty
\* string; it is the same list for every Handler.
C12_FiveTools ==
    (r_dispatched /\ r_request.value.method = McpText.tools_list) =>
        /\ r_dispatch.ok
        /\ r_dispatch.value.result.some
        /\ ~r_dispatch.value.error.some
        /\ index(r_dispatch.value.result.value, McpText.tools).kind = "array"
        /\ Len(tools_of(r_dispatch.value)) = 5
        /\ {index(tools_of(r_dispatch.value)[k], McpText.name) : k \in 1..5}
               = {JStr(n) : n \in FiveTools}
        /\ \A k \in 1..5 :
               /\ as_str(index(tools_of(r_dispatch.value)[k], McpText.description)).some
               /\ as_str(index(tools_of(r_dispatch.value)[k], McpText.description)).value # <<>>
        /\ \A h \in Handlers :
               tools_of(handle_tools_list(h, JNull).value) = tools_of(r_dispatch.value)

\* a Handler without services answers tools/list after another tools/list
\* and before that a tools/call
C12_Witness ==
    /\ r_dispatched
    /\ r_request.value.method = McpText.tools_list
    /\ r_server.handler = Handler_new
    /\ Len(r_history) = 2
    /\ from_json(r_history[1]).ok
    /\ from_json(r_history[1]).value.method = McpText.tools_call

\* r_request is what from_json returned for r_message
r_parsed == r_pc = "request" \/ (r_pc = "idle" /\ r_history # <<>>)

\* the params of the request are an object with a string name and without
\* an arguments entry
names_tool_without_arguments(request) ==
    /\ request.method = McpText.tools_call
    /\ request.params.some
    /\ as_str(index(request.params.value, McpText.name)).some
    /\ ~(request.params.value.kind = "object"
         /\ map_contains_key(request.params.value.xs, McpText.arguments))

\* C13: a tools/call whose params have a name and no arguments makes one
\* call of execute_tool, and its arguments are the empty object.
C13_ArgumentsDefaultToEmptyObject ==
    (r_dispatched /\ names_tool_without_arguments(r_request.value)) =>
        /\ Len(r_dispatch.executed) = 1
        /\ r_dispatch.executed[1].arguments = JObj(<<>>)

\* C19: a message whose method is the empty string is rejected by
\* from_json, so it never reaches handle_request and is never answered by
\* it (as "Method not found" or otherwise).
C19_EmptyMethodRejected ==
    (r_parsed /\ from_str(r_message).ok
     /\ index(from_str(r_message).value, JsonRpcText.method) = JStr(<<>>)) =>
        /\ ~r_request.ok
        /\ r_pc # "request"

\* C20: a request that from_json accepts has the protocol tag "2.0"; a
\* message with any other tag is rejected and never reaches handle_request.
C20_ProtocolTagIs2_0 ==
    r_parsed =>
        /\ r_request.ok => r_request.value.jsonrpc = JsonRpcText.version_2_0
        /\ (from_str(r_message).ok
            /\ index(from_str(r_message).value, JsonRpcText.jsonrpc)
                   # JStr(JsonRpcText.version_2_0))
               => (~r_request.ok /\ r_pc # "request")

---------------------------------------------------------------------------
(* A TransactionService that is filled, a TransactionQuery that is built,  *)
(* and the query run against the service.                                  *)

\* the most transactions a service holds
MaxTransactions == 3

\* the transactions added: an expense with a description, an expense with
\* neither date nor description, an income with a date, and an expense of
\* the first one's amount with a later date and a description
QTransactions ==
    {new_with_description(DomainText.txn_1, DomainText.acc_test, DomainText.groceries,
                          i64(-5000), DomainText.description_A_SIGMA_A),
     Transaction_new(DomainText.txn_2, DomainText.acc_test, DomainText.gas, i64(-15000)),
     new_with_date(DomainText.txn_3, DomainText.acc_test, DomainText.salary,
                   i64(100000), DomainText.date_2024_01_10),
     [new_with_date(DomainText.txn_4, DomainText.acc_test, DomainText.gas,
                    i64(-5000), DomainText.date_2024_01_20)
         EXCEPT !.description = Some(DomainText.description_a_SIGMA)]}

\* the bounds of the amount filters: below, at and above amounts of
\* QTransactions
QMinAmounts == {i64(-10000), i64(-5000)}
QMaxAmounts == {i64(-5000), i64(-1000)}

QInit ==
    /\ q_pc = "build"
    /\ q_service = TransactionService_new
    /\ q_query = TransactionQuery_new
    /\ q_result = <<>>
    /\ overflow_checks = FALSE
    /\ hash_order = <<>>
    /\ COff
    /\ KOff
    /\ TOff
    /\ SOff
    /\ HOff
    /\ ROff

\* service.add_transaction(transaction)
AddTransaction ==
    /\ q_pc = "build"
    /\ Len(q_service) < MaxTransactions
    /\ \E transaction \in QTransactions :
           q_service' = add_transaction(q_service, transaction)
    /\ UNCHANGED <<q_pc, q_query, q_result, overflow_checks, hash_order, c_vars, k_vars,
                   t_vars, s_vars, h_vars, r_vars>>

\* one more call of the builder, on a field that is at its default
Build(built) ==
    /\ q_pc = "build"
    /\ q_query' = built
    /\ UNCHANGED <<q_pc, q_service, q_result, overflow_checks, hash_order, c_vars, k_vars,
                   t_vars, s_vars, h_vars, r_vars>>

WithAmountRange ==
    /\ ~q_query.min_amount.some /\ ~q_query.max_amount.some
    /\ Build(with_amount_range(q_query, i64(-10000), i64(-1000)))

WithMinAmount ==
    /\ ~q_query.min_amount.some
    /\ \E min \in QMinAmounts : Build(with_min_amount(q_query, min))

WithMaxAmount ==
    /\ ~q_query.max_amount.some
    /\ \E max \in QMaxAmounts : Build(with_max_amount(q_query, max))

WithCategories ==
    /\ q_query.categories = <<>>
    /\ Build(with_categories(q_query, <<DomainText.groceries, DomainText.salary>>))

WithCategory ==
    /\ q_query.categories = <<>>
    /\ Build(with_category(q_query, DomainText.groceries))

WithTextSearch ==
    /\ ~q_query.search_text.some
    /\ \E search_text \in {DomainText.search_A_SIGMA, DomainText.search_a} :
           Build(with_text_search(q_query, search_text))

SortBy ==
    /\ ~q_query.sort_by.some
    /\ \E mode \in {"AmountAscending", "AmountDescending", "Date"} :
           Build(sort_by(q_query, mode))

\* service.query(&query)
Query ==
    /\ q_pc = "build"
    /\ q_result' = query(q_service, q_query)
    /\ q_pc' = "done"
    /\ UNCHANGED <<q_service, q_query, overflow_checks, hash_order, c_vars, k_vars,
                   t_vars, s_vars, h_vars, r_vars>>

QNext ==
    \/ AddTransaction
    \/ WithAmountRange
    \/ WithMinAmount
    \/ WithMaxAmount
    \/ WithCategories
    \/ WithCategory
    \/ WithTextSearch
    \/ SortBy
    \/ Query

\* a service, a query and the query's result
SpecQuery == QInit /\ [][QNext]_vars

---------------------------------------------------------------------------
(* Claims about queries. *)

\* the transactions the result refers to
kept == {q_result[p] : p \in 1..Len(q_result)}

\* no transaction is referred to twice
each_once == \A p1, p2 \in 1..Len(q_result) : q_result[p1] = q_result[p2] => p1 = p2

\* the only filter of the query is the one on amounts, on categories, on text
only_amount_filter == q_query.categories = <<>> /\ ~q_query.search_text.some
only_category_filter ==
    ~q_query.min_amount.some /\ ~q_query.max_amount.some /\ ~q_query.search_text.some
only_text_filter ==
    ~q_query.min_amount.some /\ ~q_query.max_amount.some /\ q_query.categories = <<>>

\* C21: with a minimum and/or a maximum amount set, the query keeps exactly
\* the transactions whose amount a has min <= a (when min is set) and
\* a <= max (when max is set), both bounds inclusive
C21_AmountFilter ==
    (q_pc = "done" /\ only_amount_filter
     /\ (q_query.min_amount.some \/ q_query.max_amount.some))
        => /\ each_once
           /\ kept = {k \in 1..Len(q_service) :
                        /\ q_query.min_amount.some
                              => milliunits(q_query.min_amount.value)
                                     <= milliunits(q_service[k].amount)
                        /\ q_query.max_amount.some
                              => milliunits(q_service[k].amount)
                                     <= milliunits(q_query.max_amount.value)}

\* min = -10000, max = -1000 on amounts [-5000, -15000, 100000] keeps -5000
C21_Witness ==
    /\ q_pc = "done"
    /\ only_amount_filter
    /\ q_query.min_amount = Some(i64(-10000))
    /\ q_query.max_amount = Some(i64(-1000))
    /\ [k \in 1..Len(q_service) |-> milliunits(q_service[k].amount)]
           = <<-5000, -15000, 100000>>
    /\ kept = {1}

\* C22: the empty category allow-list keeps every transaction, a non-empty
\* one keeps exactly the transactions whose category_id is one of its members
C22_CategoryFilter ==
    (q_pc = "done" /\ only_category_filter)
        => /\ each_once
           /\ q_query.categories = <<>> => kept = 1..Len(q_service)
           /\ q_query.categories # <<>>
                  => kept = {k \in 1..Len(q_service) :
                               q_service[k].category_id
                                   \in {q_query.categories[c] :
                                           c \in 1..Len(q_query.categories)}}

\* a non-empty allow-list has kept one transaction and dropped another
C22_Witness ==
    /\ q_pc = "done"
    /\ only_category_filter
    /\ q_query.categories # <<>>
    /\ kept # {}
    /\ kept # 1..Len(q_service)

\* the case folding of a character: the lower case, but the final sigma
\* folds to the sigma and the micro sign to the mu
case_fold(s) ==
    [i \in 1..Len(s) |->
        IF s[i] = 962 THEN 963
        ELSE IF s[i] = 181 THEN 956
        ELSE char_to_lowercase(s[i])]

\* C23: with a search string set, the query keeps exactly the transactions
\* that have a description whose case-folded form contains the case-folded
\* search string; a transaction without a description is never kept
C23_TextFilter ==
    (q_pc = "done" /\ only_text_filter /\ q_query.search_text.some)
        => /\ each_once
           /\ kept = {k \in 1..Len(q_service) :
                        /\ q_service[k].description.some
                        /\ contains(case_fold(q_service[k].description.value),
                                    case_fold(q_query.search_text.value))}

\* the transactions that pass every filter of the query
passing ==
    {k \in 1..Len(q_service) :
        /\ matches_amount_filter(q_query, q_service[k])
        /\ matches_category_filter(q_query, q_service[k])
        /\ matches_text_filter(q_query, q_service[k])}

C24_InOrder ==
    (q_pc = "done" /\ ~q_query.sort_by.some)
        => /\ kept = passing
           /\ \A p \in 1..(Len(q_result) - 1) : q_result[p] < q_result[p + 1]

C24_Step == q_pc' = "done" => q_service' = q_service

\* C24: with no sort mode, the query returns exactly the transactions that
\* pass all its filters, each once and in input order (all of them when no
\* filter is set), and running a query leaves the service's transactions
\* as they are
C24_FilterInOrder == []C24_InOrder /\ [][C24_Step]_vars

\* a query without filter and sort mode has returned two or more transactions
C24_Witness ==
    /\ q_pc = "done"
    /\ q_query = TransactionQuery_new
    /\ Len(q_service) >= 2
    /\ Len(q_result) = Len(q_service)

\* the result is sorted by amount
by_amount ==
    q_query.sort_by.some /\ q_query.sort_by.value \in {"AmountAscending", "AmountDescending"}

\* C25: sorting by amount, ascending or descending, returns a permutation
\* of the filtered transactions in the order of their signed amounts, in
\* which transactions of equal amounts keep their input order
C25_AmountSortStable ==
    (q_pc = "done" /\ by_amount)
        => /\ each_once
           /\ kept = passing
           /\ \A p1, p2 \in 1..Len(q_result) :
                p1 < p2 =>
                    /\ q_query.sort_by.value = "AmountAscending"
                          => milliunits(q_service[q_result[p1]].amount)
                                 <= milliunits(q_service[q_result[p2]].amount)
                    /\ q_query.sort_by.value = "AmountDescending"
                          => milliunits(q_service[q_result[p1]].amount)
                                 >= milliunits(q_service[q_result[p2]].amount)
                    /\ q_service[q_result[p1]].amount = q_service[q_result[p2]].amount
                          => q_result[p1] < q_result[p2]

\* a descending sort has returned two transactions of one amount and one of
\* another
C25_Witness ==
    /\ q_pc = "done"
    /\ q_query.sort_by = Some("AmountDescending")
    /\ \E p1, p2, p3 \in 1..Len(q_result) :
          /\ p1 # p2
          /\ q_service[q_result[p1]].amount = q_service[q_result[p2]].amount
          /\ q_service[q_result[p3]].amount # q_service[q_result[p1]].amount

\* C26: sorting by date puts the dated transactions in ascending order of
\* their dates, every dated transaction before every dateless one, and
\* keeps the dateless ones in their input order
C26_DateSort ==
    (q_pc = "done" /\ q_query.sort_by = Some("Date"))
        => /\ each_once
           /\ kept = passing
           /\ \A p1, p2 \in 1..Len(q_result) :
                p1 < p2 =>
                    /\ (q_service[q_result[p1]].date.some /\ q_service[q_result[p2]].date.some)
                          => ~str_lt(q_service[q_result[p2]].date.value,
                                     q_service[q_result[p1]].date.value)
                    /\ q_service[q_result[p2]].date.some
                          => q_service[q_result[p1]].date.some
                    /\ (~q_service[q_result[p1]].date.some
                        /\ ~q_service[q_result[p2]].date.some)
                          => q_result[p1] < q_result[p2]

\* a sort by date of a dateless transaction followed by two dated ones
C26_Witness ==
    /\ q_pc = "done"
    /\ q_query.sort_by = Some("Date")
    /\ Len(q_result) = 3
    /\ ~q_service[1].date.some
    /\ q_service[2].date.some
    /\ q_service[3].date.some
    /\ q_service[3].date.value # q_service[2].date.value
    /\ q_result[3] = 1

---------------------------------------------------------------------------
(* The three tools that compute over the transaction service, called on a  *)
(* Handler built by with_services (server/handler.rs), in a build with or  *)
(* without overflow checks.                                                *)

\* the transactions a service is made of: small expenses in three
\* categories, an income, an amount of zero, and the two ends of i64
ATransactions ==
    <<Transaction_new(DomainText.txn_1, DomainText.acc_test, HandlerText.groceries, i64(-5)),
      Transaction_new(DomainText.txn_2, DomainText.acc_test, DomainText.gas, i64(-1)),
      Transaction_new(DomainText.txn_3, DomainText.acc_test, HandlerText.dining, i64(-2)),
      Transaction_new(DomainText.txn_4, DomainText.acc_test, DomainText.salary, i64(100)),
      Transaction_new(DomainText.txn_4, DomainText.acc_test, DomainText.salary, i64(0)),
      Transaction_new(DomainText.txn_1, DomainText.acc_test, HandlerText.groceries, i64_MIN),
      Transaction_new(DomainText.txn_4, DomainText.acc_test, DomainText.salary, i64_MAX)>>

\* the services of at most MaxTransactions of these transactions, in the
\* order in which they are listed above
AServices ==
    UNION {{with_transactions([k \in 1..n |-> ATransactions[choice[k]]]) :
               choice \in {c \in [1..n -> 1..Len(ATransactions)] :
                               \A k \in 1..(n - 1) : c[k] <= c[k + 1]}} :
           n \in 0..MaxTransactions}

\* the orders in which a HashMap of the categories with expenses iterates,
\* one of which the keys of the process's RandomState select
HashOrders ==
    {order \in [1..3 -> {HandlerText.groceries, DomainText.gas, HandlerText.dining}] :
        \A k1, k2 \in 1..3 : order[k1] = order[k2] => k1 = k2}

\* the arguments of analyze_category_spending
AArguments ==
    {JObj(<<E(HandlerText.category_id, JStr(category)),
            E(HandlerText.category_name, JStr(HandlerText.Groceries))>>) :
        category \in {HandlerText.groceries, DomainText.gas}}

AInit ==
    /\ h_pc = "start"
    /\ h_handler \in {with_services(service) : service \in AServices}
    /\ h_tool_name = <<>>
    /\ h_params = JNull
    /\ h_tools = <<>>
    /\ h_outcome = Err(NoError)
    /\ h_first = Err(NoError)
    /\ overflow_checks \in BOOLEAN
    /\ hash_order \in HashOrders
    /\ COff
    /\ KOff
    /\ q_pc = "off"
    /\ q_service = TransactionService_new
    /\ q_query = TransactionQuery_new
    /\ q_result = <<>>
    /\ TOff
    /\ SOff
    /\ ROff

\* handler.execute_tool("analyze_category_spending", params)
AnalyzeCategorySpending ==
    /\ h_pc = "start"
    /\ h_tool_name' = HandlerText.analyze_category_spending
    /\ h_params' \in AArguments
    /\ h_outcome' = execute_tool(h_handler, h_tool_name', h_params')
    /\ h_pc' = "called"
    /\ UNCHANGED <<h_handler, h_tools, h_first, overflow_checks, hash_order, q_vars, c_vars,
                   k_vars,
                   t_vars, s_vars, r_vars>>

\* handler.execute_tool("get_budget_overview", json!({}))
GetBudgetOverview ==
    /\ h_pc = "start"
    /\ h_tool_name' = HandlerText.get_budget_overview
    /\ h_params' = JObj(<<>>)
    /\ h_outcome' = execute_tool(h_handler, h_tool_name', h_params')
    /\ h_pc' = "called"
    /\ UNCHANGED <<h_handler, h_tools, h_first, overflow_checks, hash_order, q_vars, c_vars,
                   k_vars,
                   t_vars, s_vars, r_vars>>

\* handler.execute_tool("budget_health_check", json!({}))
BudgetHealthCheck ==
    /\ h_pc = "start"
    /\ h_tool_name' = HandlerText.budget_health_check
    /\ h_params' = JObj(<<>>)
    /\ h_outcome' = execute_tool(h_handler, h_tool_name', h_params')
    /\ h_pc' = "called"
    /\ UNCHANGED <<h_handler, h_tools, h_first, overflow_checks, hash_order, q_vars, c_vars,
                   k_vars,
                   t_vars, s_vars, r_vars>>

ANext == AnalyzeCategorySpending \/ GetBudgetOverview \/ BudgetHealthCheck

\* a Handler over a transaction service, asked for one of its analyses
SpecAnalysis == AInit /\ [][ANext]_vars

---------------------------------------------------------------------------
(* What the analyses report, against the numbers computed without the      *)
(* limits of i64.                                                          *)

\* |a| as a natural number
magnitude(a) == big_of_limbs(IF is_negative(a) THEN wrapping_neg(a) ELSE a)

RECURSIVE big_sum(_)
\* the sum of natural numbers
big_sum(numbers) ==
    IF numbers = <<>> THEN <<>> ELSE big_add(numbers[1], big_sum(Tail(numbers)))

\* the sum of |amount| over the expenses (amount < 0) of transactions
expenses_of(transactions) ==
    Let(SelectSeq(transactions, LAMBDA t : is_negative(t.amount)), LAMBDA expenses :
        big_sum([k \in 1..Len(expenses) |-> magnitude(expenses[k].amount)]))

\* the sum of the amounts >= 0 of transactions
income_of(transactions) ==
    Let(SelectSeq(transactions, LAMBDA t : ~is_negative(t.amount)), LAMBDA incomes :
        big_sum([k \in 1..Len(incomes) |-> magnitude(incomes[k].amount)]))

\* |x - y| of natural numbers
big_distance(x, y) == IF big_lt(x, y) THEN big_sub(y, x) ELSE big_sub(x, y)

\* the transactions of the handler's service
a_transactions == h_handler.transaction_service.value

\* those of the category analyze_category_spending was asked for
a_requested ==
    SelectSeq(a_transactions,
              LAMBDA t : t.category_id = str_param(h_params, HandlerText.category_id))

\* C27: analyze_category_spending over the transaction service reports
\* amount_milliunits equal to the absolute value of the sum of the amounts
\* of the transactions of the requested category, and transaction_count
\* equal to their number
C27_CategorySpending ==
    (h_pc = "called" /\ h_tool_name = HandlerText.analyze_category_spending)
        => /\ big_bits(big_distance(income_of(a_requested), expenses_of(a_requested))) <= 63
           /\ h_outcome = Ok(category_spending_text(
                  str_param(h_params, HandlerText.category_name),
                  [amount_milliunits |->
                       limbs_of_big(big_distance(income_of(a_requested),
                                                 expenses_of(a_requested))),
                   transaction_count |-> Len(a_requested)]))

\* x - y of natural numbers below 2^63, as an i64
i64_difference(x, y) ==
    IF big_lt(x, y) THEN wrapping_neg(limbs_of_big(big_sub(y, x)))
    ELSE limbs_of_big(big_sub(x, y))

\* C28: get_budget_overview over the transaction service reports
\* total_expenses as the sum of |amount| over the amounts < 0, total_income
\* as the sum of the amounts >= 0 (an amount of zero is no expense) and
\* net_income as total_income - total_expenses (the signed sum of all
\* amounts), both totals not negative, and transaction_count as the size of
\* the collection
C28_BudgetOverview ==
    (h_pc = "called" /\ h_tool_name = HandlerText.get_budget_overview)
        => /\ big_bits(expenses_of(a_transactions)) <= 63
           /\ big_bits(income_of(a_transactions)) <= 63
           /\ h_outcome = Ok(budget_overview_text(
                  [total_expenses |-> limbs_of_big(expenses_of(a_transactions)),
                   total_income |-> limbs_of_big(income_of(a_transactions)),
                   net_income |-> i64_difference(income_of(a_transactions),
                                                 expenses_of(a_transactions)),
                   transaction_count |-> Len(a_transactions)]))

\* the categories that have expenses
a_expense_categories ==
    {a_transactions[k].category_id :
        k \in {j \in 1..Len(a_transactions) : is_negative(a_transactions[j].amount)}}

\* the expense total of a category
a_expenses_in(category) ==
    expenses_of(SelectSeq(a_transactions, LAMBDA t : t.category_id = category))

\* C29: budget_health_check over the transaction service lists a category
\* in risk_categories exactly when the expense total of the category
\* exceeds twice the mean expense per category, the total expenses divided
\* by the number of categories that have expenses
C29_RiskCategories ==
    (h_pc = "called" /\ h_tool_name = HandlerText.budget_health_check)
        => /\ h_outcome = Ok(budget_health_text(budget_health(a_transactions)))
           /\ {budget_health(a_transactions).risk_categories[k] :
                  k \in 1..Len(budget_health(a_transactions).risk_categories)}
              = {category \in a_expense_categories :
                    big_lt(big_add(expenses_of(a_transactions), expenses_of(a_transactions)),
                           big_mul_small(a_expenses_in(category),
                                         Cardinality(a_expense_categories)))}

---------------------------------------------------------------------------
(* An ApiResponseCache in use (adapters/cache.rs): entries are stored,     *)
(* looked up and cleaned up while time passes.                             *)

\* the clock stops at MaxTime seconds
MaxTime == 3

\* the keys, the responses and the TTLs the cache is used with
CKeys == {CacheText.test, CacheText.budgets_123}
CData == {JObj(<<E(CacheText.test, JStr(CacheText.data))>>), JNull}
CTtls == {0, 1}

CInit ==
    /\ c_cache \in {ApiResponseCache_new} \cup {with_ttl(ttl) : ttl \in CTtls}
    /\ c_now = 0
    /\ c_op = Op("new", <<>>, NoEntry)
    /\ c_result = None
    /\ c_removed = {}
    /\ KOff
    /\ q_pc = "off"
    /\ q_service = TransactionService_new
    /\ q_query = TransactionQuery_new
    /\ q_result = <<>>
    /\ overflow_checks = FALSE
    /\ hash_order = <<>>
    /\ TOff
    /\ SOff
    /\ HOff
    /\ ROff

c_rest == <<t_vars, s_vars, h_vars, r_vars, q_vars, overflow_checks, hash_order, k_vars>>

\* cache.set(key, data)
Set ==
    \E key \in CKeys, data \in CData :
        /\ c_cache' = set(c_cache, key, data, c_now)
        /\ c_op' = Op("set", key, NoEntry)
        /\ c_removed' = {}
        /\ UNCHANGED <<c_now, c_result, c_rest>>

\* cache.set_with_ttl(key, data, ttl)
SetWithTtl ==
    \E key \in CKeys, data \in CData, ttl \in CTtls :
        /\ c_cache' = set_with_ttl(c_cache, key, data, ttl, c_now)
        /\ c_op' = Op("set_with_ttl", key, NoEntry)
        /\ c_removed' = {}
        /\ UNCHANGED <<c_now, c_result, c_rest>>

\* cache.get(key)
Get ==
    \E key \in CKeys :
        /\ c_cache' = get(c_cache, key, c_now).cache
        /\ c_result' = get(c_cache, key, c_now).result
        /\ c_op' = Op("get", key, entries_get(c_cache.entries, key))
        /\ c_removed' = map_keys(c_cache.entries) \ map_keys(c_cache'.entries)
        /\ UNCHANGED <<c_now, c_rest>>

\* cache.cleanup_expired()
CleanupExpired ==
    /\ c_cache' = cleanup_expired(c_cache, c_now)
    /\ c_op' = Op("cleanup_expired", <<>>, NoEntry)
    /\ c_removed' = map_keys(c_cache.entries) \ map_keys(c_cache'.entries)
    /\ UNCHANGED <<c_now, c_result, c_rest>>

\* cache.clear()
Clear ==
    /\ c_cache' = clear(c_cache)
    /\ c_op' = Op("clear", <<>>, NoEntry)
    /\ c_removed' = map_keys(c_cache.entries)
    /\ UNCHANGED <<c_now, c_result, c_rest>>

\* std::thread::sleep: a second passes
Sleep ==
    /\ c_now < MaxTime
    /\ c_now' = c_now + 1
    /\ UNCHANGED <<c_cache, c_op, c_result, c_removed, c_rest>>

CNext == Set \/ SetWithTtl \/ Get \/ CleanupExpired \/ Clear \/ Sleep

SpecCache == CInit /\ [][CNext]_vars

\* the entry of key is in the cache and its age does not exceed its TTL
live(key) ==
    /\ map_contains_key(c_cache.entries, key)
    /\ c_now - map_get(c_cache.entries, key).created_at
           <= map_get(c_cache.entries, key).ttl

\* this step is a call of get (a call changes neither the clock nor, when
\* it is get, the name of the call made last)
get_step == c_op'.name = "get" /\ c_now' = c_now

C30_Step ==
    get_step =>
        /\ live(c_op'.key)
              => c_result' = Some(map_get(c_cache.entries, c_op'.key).data)
        /\ ~live(c_op'.key) => c_result' = None
        /\ (map_contains_key(c_cache.entries, c_op'.key) /\ ~live(c_op'.key))
              => /\ ~map_contains_key(c_cache'.entries, c_op'.key)
                 /\ \A key \in map_keys(c_cache.entries) \ {c_op'.key} :
                        /\ map_contains_key(c_cache'.entries, key)
                        /\ map_get(c_cache'.entries, key) = map_get(c_cache.entries, key)
                 /\ map_keys(c_cache'.entries) \subseteq map_keys(c_cache.entries)

\* C30: get(key) returns the stored value exactly when an entry for key
\* exists and its age does not exceed its TTL; when the entry is expired,
\* get returns None and removes that entry, and leaves every other entry
\* as it was
C30_GetAndLazyEviction == [][C30_Step]_vars

\* a get has found an expired entry, returned None and removed the entry,
\* while the entry of the other key is still there
C30_Witness ==
    /\ c_op.name = "get"
    /\ c_op.entry.some
    /\ c_now - c_op.entry.value.created_at > c_op.entry.value.ttl
    /\ c_result = None
    /\ ~map_contains_key(c_cache.entries, c_op.key)
    /\ size(c_cache) = 1

\* this step is a call of cleanup_expired
cleanup_step == c_op'.name = "cleanup_expired" /\ c_now' = c_now

\* the entry is unexpired: its age does not exceed its TTL
unexpired(entry) == c_now - entry.value.created_at <= entry.value.ttl

C31_Step ==
    cleanup_step =>
        /\ \A k \in 1..Len(c_cache.entries) :
               unexpired(c_cache.entries[k])
                   <=> \E j \in 1..Len(c_cache'.entries) :
                           c_cache'.entries[j] = c_cache.entries[k]
        /\ \A j \in 1..Len(c_cache'.entries) :
               \E k \in 1..Len(c_cache.entries) : c_cache.entries[k] = c_cache'.entries[j]
        /\ Len(c_cache'.entries) = Cardinality(map_keys(c_cache'.entries))

\* C31: cleanup_expired removes every expired entry and no unexpired one:
\* afterwards the cache holds exactly the entries that were unexpired, with
\* their values unchanged
C31_CleanupExpired == [][C31_Step]_vars

\* cleanup_expired has removed one entry and has kept the other, which is
\* older than the clock's start and unexpired
C31_Witness ==
    /\ c_op.name = "cleanup_expired"
    /\ Cardinality(c_removed) = 1
    /\ size(c_cache) = 1
    /\ c_cache.entries[1].value.created_at < c_now

---------------------------------------------------------------------------
(* A YnabClient and its clones in use (adapters/ynab_client.rs): get_json  *)
(* calls that run side by side (the futures of batch_requests, or calls on *)
(* clones in other threads), the cache methods, and time.                  *)

\* the most get_json calls that run side by side
MaxCalls == 2

\* how often the time in which a cached response expires passes
MaxExpiries == 1

\* the client every call is made on (its clones differ in nothing but the
\* address)
KClient == new_with_base_url(ClientText.test_token, CacheText.base_url)

\* the JSON a response carries
KData == {JObj(<<E(CacheText.test, JStr(CacheText.data))>>)}

\* the answers a request can meet: none, an error status, a body that is
\* no JSON, and a JSON body
Responses ==
    {NoAnswer,
     Response(TRUE, FALSE, CacheText.status_404, Some(JNull)),
     Response(TRUE, TRUE, CacheText.status_200, None)}
    \cup {Response(TRUE, TRUE, CacheText.status_200, Some(data)) : data \in KData}

\* batch_requests has not returned
NotJoined == [joined |-> FALSE, outputs |-> <<>>]

KInit ==
    /\ c_cache = ApiResponseCache_new
    /\ c_now = 0
    /\ c_op = Op("off", <<>>, NoEntry)
    /\ c_result = None
    /\ c_removed = {}
    /\ k_poisoned = FALSE
    /\ k_lock = 0
    /\ k_calls \in UNION {{[i \in 1..n |-> Call(paths[i])] : paths \in [1..n -> CKeys]} :
                          n \in 1..MaxCalls}
    /\ k_results = NotJoined
    /\ k_op = Called("off", FALSE, Completed(ApiResponseCache_new, 0))
    /\ q_pc = "off"
    /\ q_service = TransactionService_new
    /\ q_query = TransactionQuery_new
    /\ q_result = <<>>
    /\ overflow_checks = FALSE
    /\ hash_order = <<>>
    /\ TOff
    /\ SOff
    /\ HOff
    /\ ROff

k_rest == <<t_vars, s_vars, h_vars, r_vars, q_vars, overflow_checks, hash_order,
            c_op, c_result, c_removed>>

\* self.cache.lock() of the lookup: the call waits until the lock is free
LockForGet(i) ==
    /\ k_calls[i].pc = "start"
    /\ k_lock = 0
    /\ k_lock' = i
    /\ k_calls' = [k_calls EXCEPT ![i].pc = "get"]
    /\ UNCHANGED <<c_cache, c_now, k_poisoned, k_results, k_op, k_rest>>

\* get_json that keeps the lock of its lookup while its request is out
CacheGet_keeping_lock(i) ==
    /\ k_calls[i].pc = "get"
    /\ \E lookup \in {get_json_lookup(c_cache, k_poisoned, k_calls[i].path, c_now)} :
        /\ c_cache' = lookup.cache
        /\ k_calls' = [k_calls EXCEPT
               ![i].locked = ~k_poisoned,
               ![i].found = entries_get(c_cache.entries, k_calls[i].path),
               ![i].found_at = c_now,
               ![i].changed = (lookup.cache # c_cache),
               ![i].hit = lookup.result,
               ![i].result = IF lookup.result.some THEN Ok(lookup.result.value) ELSE @,
               ![i].pc = IF lookup.result.some THEN "done" ELSE "send"]
        /\ k_lock' = IF lookup.result.some THEN 0 ELSE i
    /\ UNCHANGED <<c_now, k_poisoned, k_results, k_op, k_rest>>

\* get_json from the lock of its lookup to its request: cache.get(path),
\* the lock released, and the cached value returned or the request sent
CacheGet(i) ==
    /\ k_calls[i].pc = "get"
    /\ \E lookup \in {get_json_lookup(c_cache, k_poisoned, k_calls[i].path, c_now)} :
        /\ c_cache' = lookup.cache
        /\ k_calls' = [k_calls EXCEPT
               ![i].locked = ~k_poisoned,
               ![i].found = entries_get(c_cache.entries, k_calls[i].path),
               ![i].found_at = c_now,
               ![i].changed = (lookup.cache # c_cache),
               ![i].hit = lookup.result,
               ![i].result = IF lookup.result.some THEN Ok(lookup.result.value) ELSE @,
               ![i].pc = IF lookup.result.some THEN "done" ELSE "send"]
    /\ k_lock' = 0
    /\ UNCHANGED <<c_now, k_poisoned, k_results, k_op, k_rest>>

\* the request of the call is answered, or fails: get_json returns its
\* error, or goes on to store the JSON it has read
Respond(i) ==
    /\ k_calls[i].pc = "send"
    /\ \E response \in Responses :
        \E outcome \in {get_json_response(KClient, k_calls[i].path, response)} :
            k_calls' = [k_calls EXCEPT
                ![i].response = response,
                ![i].result = outcome,
                ![i].pc = IF outcome.ok THEN "store" ELSE "done"]
    /\ UNCHANGED <<c_cache, c_now, k_poisoned, k_lock, k_results, k_op, k_rest>>

\* self.cache.lock() before the response is stored
LockForSet(i) ==
    /\ k_calls[i].pc = "store"
    /\ k_lock = 0
    /\ k_lock' = i
    /\ k_calls' = [k_calls EXCEPT ![i].pc = "set"]
    /\ UNCHANGED <<c_cache, c_now, k_poisoned, k_results, k_op, k_rest>>

\* get_json from that lock to its end: cache.set(path, json), the lock
\* released, Ok(json) returned
CacheSet(i) ==
    /\ k_calls[i].pc = "set"
    /\ c_cache' = get_json_store(c_cache, k_poisoned, k_calls[i].path,
                                 k_calls[i].result.value, c_now)
    /\ k_calls' = [k_calls EXCEPT ![i].pc = "done"]
    /\ k_lock' = 0
    /\ UNCHANGED <<c_now, k_poisoned, k_results, k_op, k_rest>>

\* join_all(futures).await of batch_requests: every future has completed
JoinAll ==
    /\ ~k_results.joined
    /\ \A i \in 1..Len(k_calls) : k_calls[i].pc = "done"
    /\ k_results' = [joined |-> TRUE,
                     outputs |-> join_all([i \in 1..Len(k_calls) |-> k_calls[i].result])]
    /\ UNCHANGED <<c_cache, c_now, k_poisoned, k_lock, k_calls, k_op, k_rest>>

\* client.clear_cache(), in a thread of its own
ClearCache ==
    /\ k_lock = 0
    /\ k_op' = Called("clear_cache", k_poisoned, clear_cache(c_cache, k_poisoned))
    /\ c_cache' = clear_cache(c_cache, k_poisoned).cache
    /\ UNCHANGED <<c_now, k_poisoned, k_lock, k_calls, k_results, k_rest>>

\* client.cache_size()
CacheSize ==
    /\ k_lock = 0
    /\ k_op' = Called("cache_size", k_poisoned, cache_size(c_cache, k_poisoned))
    /\ c_cache' = cache_size(c_cache, k_poisoned).cache
    /\ UNCHANGED <<c_now, k_poisoned, k_lock, k_calls, k_results, k_rest>>

\* client.cleanup_cache()
CleanupCache ==
    /\ k_lock = 0
    /\ k_op' = Called("cleanup_cache", k_poisoned, cleanup_cache(c_cache, k_poisoned, c_now))
    /\ c_cache' = cleanup_cache(c_cache, k_poisoned, c_now).cache
    /\ UNCHANGED <<c_now, k_poisoned, k_lock, k_calls, k_results, k_rest>>

\* a thread panics while it holds the lock: the Mutex is poisoned
Poison ==
    /\ k_lock = 0
    /\ ~k_poisoned
    /\ k_poisoned' = TRUE
    /\ UNCHANGED <<c_cache, c_now, k_lock, k_calls, k_results, k_op, k_rest>>

\* more than the default TTL passes
Expire ==
    /\ c_now < MaxExpiries * (DEFAULT_TTL + 1)
    /\ c_now' = c_now + DEFAULT_TTL + 1
    /\ UNCHANGED <<c_cache, k_poisoned, k_lock, k_calls, k_results, k_op, k_rest>>

\* a step of one of the get_json calls
KCalls ==
    \E i \in 1..Len(k_calls) :
        LockForGet(i) \/ CacheGet(i) \/ Respond(i) \/ LockForSet(i) \/ CacheSet(i)

KNext == KCalls \/ JoinAll \/ Poison \/ Expire

\* the get_json calls of a batch, on a client whose cached responses expire
\* and whose lock may be poisoned
SpecClient == KInit /\ [][KNext]_vars

MNext == KCalls \/ ClearCache \/ CacheSize \/ CleanupCache \/ Poison

\* get_json calls and the cache methods of the client side by side, with a
\* lock that may be poisoned
SpecMethods == KInit /\ [][MNext]_vars

---------------------------------------------------------------------------
(* Claims about get_json.                                                  *)

\* the lookup of call i found an entry that had not expired
found_unexpired(i) ==
    k_calls[i].found.some /\ ~is_expired(k_calls[i].found.value, k_calls[i].found_at)

\* call i has made a request, and the request or its answer failed
fetch_failed(i) ==
    k_calls[i].pc = "done" /\ ~k_calls[i].hit.some /\ ~k_calls[i].result.ok

\* get_json returns the cached value without a fetch whenever an unexpired
\* entry exists, and a call whose fetch fails has left the cache unchanged
C32_Original ==
    \A i \in 1..Len(k_calls) :
        k_calls[i].pc = "done" =>
            /\ found_unexpired(i)
                  => /\ k_calls[i].hit = Some(k_calls[i].found.value.data)
                     /\ k_calls[i].result = Ok(k_calls[i].found.value.data)
                     /\ k_calls[i].response = NoAnswer
            /\ fetch_failed(i) => ~k_calls[i].changed

\* what the calls that have returned have done
C32_Returned ==
    \A i \in 1..Len(k_calls) :
        k_calls[i].pc = "done" =>
            IF k_calls[i].locked /\ found_unexpired(i)
            THEN /\ k_calls[i].hit = Some(k_calls[i].found.value.data)
                 /\ k_calls[i].result = Ok(k_calls[i].found.value.data)
                 /\ k_calls[i].response = NoAnswer
                 /\ ~k_calls[i].changed
            ELSE /\ ~k_calls[i].hit.some
                 /\ k_calls[i].result.ok
                       <=> (k_calls[i].response.sent /\ k_calls[i].response.success
                            /\ k_calls[i].response.json.some)
                 /\ k_calls[i].result.ok
                       => k_calls[i].result.value = k_calls[i].response.json.value
                 /\ k_calls[i].changed <=> (k_calls[i].locked /\ k_calls[i].found.some)

\* what a step of call i does to the cache
C32_Cache(i) ==
    /\ (k_calls[i].pc = "get" /\ k_calls'[i].pc = "done") => c_cache' = c_cache
    /\ (k_calls[i].pc = "get" /\ k_calls'[i].pc = "send")
          => \/ c_cache' = c_cache
             \/ /\ map_contains_key(c_cache.entries, k_calls[i].path)
                /\ is_expired(map_get(c_cache.entries, k_calls[i].path), c_now)
                /\ c_cache'.entries = entries_remove(c_cache.entries, k_calls[i].path)
    /\ k_calls[i].pc = "send"
          => /\ c_cache' = c_cache
             /\ k_calls'[i].pc = "store" <=> k_calls'[i].result.ok
             /\ k_calls'[i].pc = "done" <=> ~k_calls'[i].result.ok
    /\ (k_calls[i].pc = "set" /\ ~k_poisoned)
          => /\ map_contains_key(c_cache'.entries, k_calls[i].path)
             /\ map_get(c_cache'.entries, k_calls[i].path)
                    = CacheEntry_new(k_calls[i].result.value, DEFAULT_TTL, c_now)
             /\ \A key \in map_keys(c_cache.entries) \ {k_calls[i].path} :
                    /\ map_contains_key(c_cache'.entries, key)
                    /\ map_get(c_cache'.entries, key) = map_get(c_cache.entries, key)
             /\ map_keys(c_cache'.entries)
                    = map_keys(c_cache.entries) \cup {k_calls[i].path}
    /\ (k_calls[i].pc = "set" /\ k_poisoned) => c_cache' = c_cache
    /\ k_calls[i].pc = "set" => k_calls'[i].pc = "done" /\ k_calls'[i].result = k_calls[i].result

C32_Step ==
    /\ C32_Returned'
    /\ \A i \in 1..Len(k_calls) : k_calls'[i] # k_calls[i] => C32_Cache(i)

\* C32 (amended): when the lock can be acquired and an unexpired entry for
\* the path exists, get_json returns the cached value without a fetch and
\* leaves the cache as it is; otherwise it fetches, stores the response only
\* when the fetch succeeded with a success status and a JSON body, and when
\* the fetch fails it leaves the cache unchanged except that its lookup has
\* removed an expired entry for the path
C32_GetJson == [][C32_Step]_vars

\* a call has found an expired entry, its fetch has failed with an error
\* status, and its lookup has removed the entry
C32_Witness ==
    \E i \in 1..Len(k_calls) :
        /\ fetch_failed(i)
        /\ k_calls[i].locked
        /\ k_calls[i].found.some
        /\ k_calls[i].changed
        /\ k_calls[i].response.sent
        /\ k_calls[i].result.err.variant = "ApiError"

---------------------------------------------------------------------------
(* Claims about batch_requests.                                            *)

\* what the call in slot i returns, from its own lookup and its own answer
own_result(i) ==
    IF k_calls[i].hit.some THEN Ok(k_calls[i].hit.value)
    ELSE get_json_response(KClient, k_calls[i].path, k_calls[i].response)

\* C33: batch_requests returns one result per input path, in input order;
\* a failing fetch gives an error in its own slot only, and every other slot
\* holds what its own fetch or its own cache hit gave
C33_BatchRequests ==
    k_results.joined =>
        /\ Len(k_results.outputs) = Len(k_calls)
        /\ \A i \in 1..Len(k_calls) :
              /\ k_results.outputs[i] = own_result(i)
              /\ ~k_results.outputs[i].ok
                    <=> (~k_calls[i].hit.some
                         /\ ~(k_calls[i].response.sent /\ k_calls[i].response.success
                              /\ k_calls[i].response.json.some))

\* a batch of two has returned: the fetch of the first slot failed, and the
\* second slot holds the JSON its own fetch returned
C33_Witness ==
    /\ k_results.joined
    /\ Len(k_calls) = 2
    /\ ~k_results.outputs[1].ok
    /\ k_calls[2].response.sent
    /\ k_results.outputs[2] = Ok(k_calls[2].response.json.value)

---------------------------------------------------------------------------
(* Claims about a cache lock that cannot be acquired.                      *)

\* what a step of call i does while the lock is poisoned
C34_Call(i) ==
    /\ k_calls[i].pc = "get"
          => /\ k_calls'[i].pc = "send"
             /\ ~k_calls'[i].locked
             /\ ~k_calls'[i].hit.some
             /\ c_cache' = c_cache
    /\ k_calls[i].pc = "send"
          => /\ k_calls'[i].result
                    = get_json_response(KClient, k_calls[i].path, k_calls'[i].response)
             /\ k_calls'[i].pc = (IF k_calls'[i].result.ok THEN "store" ELSE "done")
             /\ c_cache' = c_cache
    /\ k_calls[i].pc = "set"
          => /\ k_calls'[i].pc = "done"
             /\ k_calls'[i].result = Ok(k_calls[i].response.json.value)
             /\ c_cache' = c_cache

C34_Step ==
    k_poisoned =>
        /\ \A i \in 1..Len(k_calls) : k_calls'[i] # k_calls[i] => C34_Call(i)
        /\ k_op' # k_op
              => /\ k_op'.name \in {"cache_size", "clear_cache", "cleanup_cache"}
                 /\ k_op'.lock_failed
                 /\ ~k_op'.panicked
                 /\ k_op'.value = 0
                 /\ c_cache' = c_cache

\* C34: when the cache lock cannot be acquired, get_json goes on as on a
\* cache miss, fetches and returns what the fetch gave, with the cache left
\* alone; cache_size (returning 0), clear_cache and cleanup_cache return
\* without a fault
C34_LockFailure == [][C34_Step]_vars

\* with the lock poisoned and a response in the cache, a call has fetched
\* and returned the JSON of its own fetch, and cache_size has returned 0
C34_Witness ==
    /\ k_poisoned
    /\ size(c_cache) = 1
    /\ k_op.name = "cache_size"
    /\ k_op.lock_failed
    /\ k_op.value = 0
    /\ ~k_op.panicked
    /\ \E i \in 1..Len(k_calls) :
          /\ k_calls[i].pc = "done"
          /\ ~k_calls[i].locked
          /\ map_contains_key(c_cache.entries, k_calls[i].path)
          /\ k_calls[i].response.sent
          /\ k_calls[i].result = Ok(k_calls[i].response.json.value)

---------------------------------------------------------------------------
(* get_json calls on clones that share one cache, scheduled fairly.        *)

\* the steps call i takes by itself: none of them waits for anything but
\* the lock (the answer to its request is not its own step)
KStep(i) ==
    /\ i <= Len(k_calls)
    /\ (LockForGet(i) \/ CacheGet(i) \/ LockForSet(i) \/ CacheSet(i))

KNextClones == KCalls \/ Poison

\* every call that can take a step of its own takes one in the end: the
\* executor polls every future that is ready, and the threads of the clones
\* all run
SpecClones == KInit /\ [][KNextClones]_vars /\ \A i \in 1..MaxCalls : WF_vars(KStep(i))

\* where call i stands, "none" when there is no call i
pc_of(i) == IF i <= Len(k_calls) THEN k_calls[i].pc ELSE "none"

\* the calls that hold the lock
holders == {i \in 1..Len(k_calls) : k_calls[i].pc \in {"get", "set"}}

C40_Exclusion ==
    /\ Cardinality(holders) <= 1
    /\ holders = (IF k_lock = 0 THEN {} ELSE {k_lock})
    /\ \A i \in 1..Len(k_calls) : k_calls[i].pc = "send" => k_lock # i

\* C40: under any interleaving of get_json calls on clones, at most one
\* call holds the cache lock at a time and none holds it while its fetch is
\* outstanding; every call that waits for the lock gets it, and every call
\* whose fetch returns completes
C40_Clones ==
    /\ []C40_Exclusion
    /\ \A i \in 1..MaxCalls :
          /\ (pc_of(i) = "start") ~> (pc_of(i) \in {"send", "done"})
          /\ (pc_of(i) = "store") ~> (pc_of(i) = "done")

\* one call holds the lock to store its response while the fetch of the
\* other is outstanding
C40_Witness ==
    /\ Len(k_calls) = 2
    /\ k_calls[1].pc = "send"
    /\ k_calls[2].pc = "set"
    /\ k_lock = 2

---------------------------------------------------------------------------
(* Claims about the responses of a session (Spec).                         *)

\* the frames of the responses to the first n messages read, one after the
\* other
response_frames(n) == Concat([k \in 1..n |-> response_frame(reads[k].message)])

\* message is a request without an id
is_notification(message) == parses(message) /\ ~request_of(message).id.some

\* whenever run_mcp_server is at the top of its loop or has returned, the
\* output holds one response frame for every message read, and nothing else
C35_Original ==
    pc \in {"read", "done"} => output = response_frames(Len(reads))

\* C35 (amended): run_mcp_server writes exactly one framed response for
\* every message it reads successfully, requests without an id included,
\* and nothing else, as long as the writer takes the response; when a write
\* fails it returns the error with that one message unanswered
C35_OneResponsePerMessage ==
    /\ (pc = "read" \/ (pc = "done" /\ returned.ok))
          => output = response_frames(Len(reads))
    /\ (pc \in {"handle", "write"} \/ (pc = "done" /\ ~returned.ok))
          => /\ Len(reads) >= 1
             /\ output = response_frames(Len(reads) - 1)
    /\ (pc = "done" /\ ~returned.ok) => ~writer_accepts
    /\ \A k \in 1..Len(reads) :
          is_notification(reads[k].message)
              => /\ response_frame(reads[k].message) # <<>>
                 /\ k <= Len(answered) => answered[k].response.id = JNull

\* a request without an id has been read, its response has been written,
\* and the server is back at the top of its loop
C35_Witness ==
    /\ pc = "read"
    /\ Len(reads) >= 1
    /\ is_notification(reads[Len(reads)].message)
    /\ Len(answered) = Len(reads)
    /\ output = response_frames(Len(reads))
    /\ output # <<>>

---------------------------------------------------------------------------
(* The five tools called on a Handler built by with_services, and called   *)
(* again with the same arguments (server/handler.rs).                      *)

\* the transactions of the services: expenses in five categories and an
\* income
UTransactions ==
    <<Transaction_new(DomainText.txn_1, DomainText.acc_test, HandlerText.groceries, i64(-3)),
      Transaction_new(DomainText.txn_2, DomainText.acc_test, HandlerText.dining, i64(-3)),
      Transaction_new(DomainText.txn_3, DomainText.acc_test, HandlerText.gas, i64(-1)),
      Transaction_new(DomainText.txn_4, DomainText.acc_test, HandlerText.entertainment,
                      i64(-1)),
      Transaction_new(DomainText.txn_1, DomainText.acc_test, HandlerText.subscriptions,
                      i64(-1)),
      Transaction_new(DomainText.txn_4, DomainText.acc_test, DomainText.salary, i64(100))>>

\* the services of the first transactions of that list
UServices ==
    {with_transactions(SubSeq(UTransactions, 1, n)) : n \in 0..Len(UTransactions)}

\* two of the orders in which a HashMap of the five categories iterates
UHashOrders ==
    {<<HandlerText.groceries, HandlerText.dining, HandlerText.gas,
       HandlerText.entertainment, HandlerText.subscriptions>>,
     <<HandlerText.subscriptions, HandlerText.entertainment, HandlerText.gas,
       HandlerText.dining, HandlerText.groceries>>}

\* the entry of key in a params object, or none
optional(key, values) == {<<>>} \cup {<<E(key, value)>> : value \in values}

\* the arguments of search_transactions: a limit below, at and above the
\* number of matches or none, with and without a category and a minimum
USearchArguments ==
    {JObj(limit \o category_id \o min_amount) :
        limit \in optional(HandlerText.limit, {JNum(n) : n \in 0..3}),
        category_id \in optional(HandlerText.category_id, {JStr(HandlerText.groceries)}),
        min_amount \in optional(HandlerText.min_amount_milliunits, {JNum(-2)})}

\* the arguments of analyze_spending_trends: months 0, 1, 2 or absent, with
\* and without a list of categories
UTrendArguments ==
    {JObj(months \o categories) :
        months \in optional(HandlerText.months, {JNum(n) : n \in 0..2}),
        categories \in optional(HandlerText.categories,
                                {JArr(<<JStr(HandlerText.groceries)>>)})}

UInit ==
    /\ h_pc = "start"
    /\ h_handler \in {with_services(service) : service \in UServices}
    /\ h_tool_name = <<>>
    /\ h_params = JNull
    /\ h_tools = <<>>
    /\ h_outcome = Err(NoError)
    /\ h_first = Err(NoError)
    /\ overflow_checks \in BOOLEAN
    /\ hash_order \in UHashOrders
    /\ COff
    /\ KOff
    /\ q_pc = "off"
    /\ q_service = TransactionService_new
    /\ q_query = TransactionQuery_new
    /\ q_result = <<>>
    /\ TOff
    /\ SOff
    /\ ROff

\* handler.execute_tool("search_transactions", params)
SearchTransactions ==
    /\ h_pc = "start"
    /\ h_tool_name' = HandlerText.search_transactions
    /\ h_params' \in USearchArguments
    /\ h_outcome' = execute_tool(h_handler, h_tool_name', h_params')
    /\ h_pc' = "called"
    /\ UNCHANGED <<h_handler, h_tools, h_first, overflow_checks, hash_order, q_vars, c_vars,
                   k_vars, t_vars, s_vars, r_vars>>

\* handler.execute_tool("analyze_spending_trends", params)
AnalyzeSpendingTrends ==
    /\ h_pc = "start"
    /\ h_tool_name' = HandlerText.analyze_spending_trends
    /\ h_params' \in UTrendArguments
    /\ h_outcome' = execute_tool(h_handler, h_tool_name', h_params')
    /\ h_pc' = "called"
    /\ UNCHANGED <<h_handler, h_tools, h_first, overflow_checks, hash_order, q_vars, c_vars,
                   k_vars, t_vars, s_vars, r_vars>>

\* the call has returned and is made again: the HashMaps of the second call
\* take new keys from RandomState::new()
Rehash ==
    /\ h_pc = "called"
    /\ h_outcome.err.variant # "panic"
    /\ h_first' = h_outcome
    /\ hash_order' \in UHashOrders
    /\ h_pc' = "again"
    /\ UNCHANGED <<h_handler, h_tool_name, h_params, h_tools, h_outcome, overflow_checks,
                   q_vars, c_vars, k_vars, t_vars, s_vars, r_vars>>

\* handler.execute_tool(tool_name, params), the second time
Repeat ==
    /\ h_pc = "again"
    /\ h_outcome' = execute_tool(h_handler, h_tool_name, h_params)
    /\ h_pc' = "repeated"
    /\ UNCHANGED <<h_handler, h_tool_name, h_params, h_tools, h_first, overflow_checks,
                   hash_order, q_vars, c_vars, k_vars, t_vars, s_vars, r_vars>>

UNext ==
    \/ AnalyzeCategorySpending
    \/ GetBudgetOverview
    \/ SearchTransactions
    \/ AnalyzeSpendingTrends
    \/ BudgetHealthCheck
    \/ Rehash
    \/ Repeat

\* a Handler over a transaction service, asked twice for one of its tools
SpecTools == UInit /\ [][UNext]_vars

---------------------------------------------------------------------------
(* Claims about the tools over a transaction service.                      *)

\* execute_tool has been called with this tool name and has ended
called(tool_name) == h_pc = "called" /\ h_tool_name = tool_name

\* C36: analyze_spending_trends on a Handler backed only by a transaction
\* service returns a result or a domain error for every months argument,
\* 0 included; the call never aborts
C36_TrendsNeverAbort ==
    called(HandlerText.analyze_spending_trends) => h_outcome.err.variant # "panic"

\* the transaction matches the filters of the params of search_transactions
search_matches(params, txn) ==
    /\ (index(params, HandlerText.category_id).kind = "string"
        /\ index(params, HandlerText.category_id).str # <<>>)
          => txn.category_id = index(params, HandlerText.category_id).str
    /\ index(params, HandlerText.min_amount_milliunits).kind = "number"
          => i64_le(i64(index(params, HandlerText.min_amount_milliunits).num), txn.amount)

\* the transactions of the service that match the params of the call, in
\* the order of the service
search_found == SelectSeq(a_transactions, LAMBDA txn : search_matches(h_params, txn))

\* the limit of the call: params["limit"], or 100
search_limit ==
    IF index(h_params, HandlerText.limit).kind = "number"
    THEN index(h_params, HandlerText.limit).num ELSE 100

\* the number of transactions the call is to return
search_count == IF search_limit < Len(search_found) THEN search_limit ELSE Len(search_found)

C38_OverallScore ==
    called(HandlerText.budget_health_check) =>
        /\ h_outcome = Ok(budget_health_text(budget_health(a_transactions)))
        /\ budget_health(a_transactions).overall_score \in 50..100

\* C39: execute_tool is deterministic: the same tool name, arguments and
\* transaction collection give the same output text in two calls
C39_Deterministic ==
    h_pc = "repeated" => h_outcome = h_first

=============================================================================
